---- MODULE Spec2Model ----
(***************************************************************************)
(* Model of Emu's particle initialisation                                  *)
(* (Source/FlavoredNeutrinoContainerInit.cpp): the direction set           *)
(* uniform_sphere_xyz, the Minerbo root finder minerbo_Z, the closure      *)
(* minerbo_closure and the two-pass particle injection of                   *)
(* FlavoredNeutrinoContainer::InitParticles.                                *)
(*                                                                         *)
(* amrex::Real values are modelled by a binary floating-point number        *)
(* [m |-> mantissa, e |-> exponent] of value m * 2^e with a 27 bit          *)
(* mantissa (TLC integers are 32 bit wide); zero is [m |-> 0, e |-> 0].     *)
(* Every arithmetic operator rounds its result to that format, as the       *)
(* hardware rounds to the 53 bits of a double.                              *)
(***************************************************************************)
EXTENDS Integers, Sequences, FiniteSets, TLC

(***************************************************************************)
(* amrex::Real arithmetic                                                  *)
(***************************************************************************)
MantLo == 2^26
MantHi == 2^27
SplitLo == 2^13

IAbs(n) == IF n < 0 THEN -n ELSE n
ISgn(n) == IF n < 0 THEN -1 ELSE IF n = 0 THEN 0 ELSE 1
IMax(a, b) == IF a < b THEN b ELSE a
IMin(a, b) == IF a < b THEN a ELSE b

RZero == [m |-> 0, e |-> 0]
ROne == [m |-> 67108864, e |-> -26]
RTwo == [m |-> 67108864, e |-> -25]
RHalf == [m |-> 67108864, e |-> -27]

RECURSIVE NormUp(_, _, _)
NormUp(sg, m, e) ==
    IF m >= MantLo THEN [m |-> sg * m, e |-> e]
    ELSE IF m < 2^13 THEN NormUp(sg, m * 2^14, e - 14)
    ELSE IF m < 2^23 THEN NormUp(sg, m * 2^4, e - 4)
    ELSE NormUp(sg, 2 * m, e - 1)

\* the least shift s >= 1 that brings a >= 2^27 below 2^27
DownShift(a) ==
    CASE a < 2^28 -> 1
      [] a >= 2^28 /\ a < 2^29 -> 2
      [] a >= 2^29 /\ a < 2^30 -> 3
      [] a >= 2^30 -> 4

\* the mantissa r rounded from a: a carry out of the 27 bits moves the exponent
Carry(sg, r, e) ==
    IF r = MantHi THEN [m |-> sg * MantLo, e |-> e + 1] ELSE [m |-> sg * r, e |-> e]

NormDown(sg, a, e, s) == Carry(sg, ((a \div (2^(s - 1))) + 1) \div 2, e + s)

\* round a signed mantissa/exponent pair to the 27 bit format (to nearest)
Norm(m, e) ==
    IF m = 0 THEN RZero
    ELSE IF IAbs(m) < MantHi THEN NormUp(ISgn(m), IAbs(m), e)
    ELSE NormDown(ISgn(m), IAbs(m), e, DownShift(IAbs(m)))

R(n) == Norm(n, 0)

\* IEEE special values: the quotient x/0 is an infinity, 0/0 is not a number
InfExp == 2^30
RInf == [m |-> 1, e |-> InfExp]
RNaN == [m |-> 0, e |-> 1]
IsNaN(x) == x.m = 0 /\ x.e = 1
IsInf(x) == x.e = InfExp
IsFinite(x) == ~IsNaN(x) /\ ~IsInf(x)

RNeg(x) == [m |-> -(x.m), e |-> x.e]
RAbs(x) == [m |-> IAbs(x.m), e |-> x.e]

\* hi + lo for hi.e - lo.e = d >= 0: aligned to hi with two guard bits
AddAligned(hi, lo, d) ==
    Norm(hi.m * 4 + (IF d > 29 THEN 0 ELSE ISgn(lo.m) * ((IAbs(lo.m) * 4) \div (2^d))),
         hi.e - 2)

\* x + y
RAdd(x, y) ==
    IF IsNaN(x) \/ IsNaN(y) THEN RNaN
    ELSE IF IsInf(x) THEN (IF IsInf(y) /\ y.m # x.m THEN RNaN ELSE x)
    ELSE IF IsInf(y) THEN y
    ELSE IF x.m = 0 THEN y
    ELSE IF y.m = 0 THEN x
    ELSE AddAligned(IF x.e >= y.e THEN x ELSE y, IF x.e >= y.e THEN y ELSE x,
                    IAbs(x.e - y.e))

RSub(x, y) == RAdd(x, RNeg(y))

\* the upper 30 bits of the 54 bit product of a1 * 2^13 + a0 and b1 * 2^13 + b0
MulHalves(a1, a0, b1, b0) ==
    (a1 * b1) * 4 + ((a1 * b0 + a0 * b1 + ((a0 * b0) \div SplitLo)) \div (2^11))

MulMantissas(a, b) == MulHalves(a \div SplitLo, a % SplitLo, b \div SplitLo, b % SplitLo)

\* x * y
RMul(x, y) ==
    IF IsNaN(x) \/ IsNaN(y) THEN RNaN
    ELSE IF IsInf(x) \/ IsInf(y)
         THEN (IF x.m = 0 \/ y.m = 0 THEN RNaN
               ELSE [m |-> ISgn(x.m) * ISgn(y.m), e |-> InfExp])
    ELSE IF x.m = 0 \/ y.m = 0 THEN RZero
    ELSE Norm(ISgn(x.m) * ISgn(y.m) * MulMantissas(IAbs(x.m), IAbs(y.m)), x.e + y.e + 24)

\* one digit of 15 bits of the quotient: the digit of r * 2^15 / b from an
\* estimate t that is at most 3 too large, and the remainder it leaves
DivEstimate(r, b) == (r * 8) \div (b \div 4096)
DivRest(r, b, t) == (r * 4 - t * (b \div 8192)) * 8192 - t * (b % 8192)
DivDigit(r, b, t) == t + (DivRest(r, b, t) \div b)
DivLeft(r, b, t) == DivRest(r, b, t) % b
DivLow(r, b) == DivDigit(r, b, DivEstimate(r, b))
DivNext(r, b) == DivLeft(r, b, DivEstimate(r, b))

\* the integer part of a * 2^30 / b for mantissas a and b
DivMantissas(a, b) ==
    ((a \div b) * 32768 + DivLow(a % b, b)) * 32768 + DivLow(DivNext(a % b, b), b)

\* x / y by long division, 30 quotient bits
RDiv(x, y) ==
    IF IsNaN(x) \/ IsNaN(y) THEN RNaN
    ELSE IF IsInf(x)
         THEN (IF IsInf(y) THEN RNaN
               ELSE [m |-> x.m * (IF y.m < 0 THEN -1 ELSE 1), e |-> InfExp])
    ELSE IF IsInf(y) THEN RZero
    ELSE IF y.m = 0
         THEN (IF x.m = 0 THEN RNaN ELSE [m |-> ISgn(x.m), e |-> InfExp])
    ELSE IF x.m = 0 THEN RZero
    ELSE Norm(ISgn(x.m) * ISgn(y.m) * DivMantissas(IAbs(x.m), IAbs(y.m)), x.e - y.e - 30)

RQ(n, d) == RDiv(R(n), R(d))

\* the order of two numbers that are not NaN: by sign, then exponent, then mantissa
RSign(x) == ISgn(x.m)
Below(x, y) ==
    IF RSign(x) # RSign(y) THEN RSign(x) < RSign(y)
    ELSE IF x.m > 0 THEN x.e < y.e \/ (x.e = y.e /\ x.m < y.m)
    ELSE IF x.m < 0 THEN x.e > y.e \/ (x.e = y.e /\ x.m < y.m)
    ELSE FALSE

\* comparisons; every comparison with a NaN is false
RLt(x, y) == ~IsNaN(x) /\ ~IsNaN(y) /\ Below(x, y)
RLe(x, y) == ~IsNaN(x) /\ ~IsNaN(y) /\ (x = y \/ Below(x, y))
RGt(x, y) == RLt(y, x)
RGe(x, y) == RLe(y, x)

\* the integer part of a finite x, |x| < 2^30 (truncation toward zero)
RTrunc(x) ==
    IF x.m = 0 \/ x.e < -27 THEN 0
    ELSE IF x.e >= 0 THEN x.m * (2^(x.e))
    ELSE ISgn(x.m) * (IAbs(x.m) \div (2^(-(x.e))))

\* std::lround: to the nearest integer, halfway cases away from zero
RLround(x) == RTrunc(RAdd(x, IF x.m < 0 THEN RNeg(RHalf) ELSE RHalf))

M_PI == [m |-> 105414357, e |-> -25]     \* 3.14159265
HalfPi == [m |-> 105414357, e |-> -26]
TwoPi == [m |-> 105414357, e |-> -24]
M_LN2 == [m |-> 93032640, e |-> -27]     \* 0.693147181

\* sum + t + t*x/d(k) + t*x*x/(d(k)*d(k+step)) + ... up to k = last, d(k) = k
\* for step 1 and k*(k+1) for step 2: the Taylor series of exp, sinh, cosh,
\* sin and cos; a sum that is no longer finite stays what it is
SeriesStep(s, x, k, step) ==
    [sum |-> RAdd(s.sum, s.t),
     t |-> RDiv(RMul(s.t, x), R(IF step = 1 THEN k ELSE k * (k + 1)))]

\* n terms from the term of index k on (n >= 1), taken in two halves
RECURSIVE SeriesRun(_, _, _, _, _)
SeriesRun(s, x, k, step, n) ==
    IF ~IsFinite(s.sum) THEN s
    ELSE IF n = 1 THEN SeriesStep(s, x, k, step)
    ELSE CHOOSE out \in { SeriesRun(half, x, k + step * (n \div 2), step, n - (n \div 2)) :
                              half \in {SeriesRun(s, x, k, step, n \div 2)} } : TRUE

SeriesEnd(s) == RAdd(s.sum, s.t)

Series(sum, t, x, k, step, last) ==
    CHOOSE out \in { SeriesEnd(SeriesRun(s, xv, k, step, ((last - k) \div step) + 1)) :
                          s \in {[sum |-> sum, t |-> t]}, xv \in {x} } : TRUE

Scaled(v, k) == IF v.m = 0 THEN v ELSE [m |-> v.m, e |-> v.e + k]

\* exp(x) = 2^k * exp(x - k ln 2)
ExpReduced(x, k) == Scaled(Series(RZero, ROne, RSub(x, RMul(R(k), M_LN2)), 1, 1, 13), k)

\* std::exp; overflows above 709, underflows below -745
RExp(x) ==
    IF IsNaN(x) THEN RNaN
    ELSE IF RGt(x, R(709)) THEN RInf
    ELSE IF RLt(x, R(-745)) THEN RZero
    ELSE ExpReduced(x, RLround(RDiv(x, M_LN2)))

SinhSeries(x) == Series(RZero, x, RMul(x, x), 2, 2, 13)
CoshSeries(x) == Series(RZero, ROne, RMul(x, x), 1, 2, 12)

\* sinh, cosh and tanh of x from ex = exp(x) and its reciprocal ei
SinhFrom(ex, ei) == RMul(RHalf, RSub(ex, ei))
CoshFrom(ex, ei) == RMul(RHalf, RAdd(ex, ei))
TanhFrom(ex, ei) == RDiv(RSub(ex, ei), RAdd(ex, ei))
SinhOf(ex) == SinhFrom(ex, RDiv(ROne, ex))
CoshOf(ex) == CoshFrom(ex, RDiv(ROne, ex))
TanhOf(ex) == TanhFrom(ex, RDiv(ROne, ex))

\* std::sinh
RSinh(x) ==
    IF IsNaN(x) THEN RNaN
    ELSE IF RLt(RAbs(x), ROne) THEN SinhSeries(x)
    ELSE CHOOSE out \in {SinhOf(ex) : ex \in {RExp(x)}} : TRUE

\* std::cosh
RCosh(x) ==
    IF IsNaN(x) THEN RNaN
    ELSE IF RLt(RAbs(x), ROne) THEN CoshSeries(x)
    ELSE CHOOSE out \in {CoshOf(ex) : ex \in {RExp(x)}} : TRUE

\* std::tanh; 1 to working precision beyond |x| = 20
RTanh(x) ==
    IF IsNaN(x) THEN RNaN
    ELSE IF RGt(RAbs(x), R(20)) THEN R(RSign(x))
    ELSE IF RLt(RAbs(x), ROne) THEN RDiv(SinhSeries(x), CoshSeries(x))
    ELSE CHOOSE out \in {TanhOf(ex) : ex \in {RExp(x)}} : TRUE

\* x reduced to (-pi, pi]
RModTwoPi(x) == RSub(x, RMul(R(RLround(RDiv(x, TwoPi))), TwoPi))

SinSeries(z) == Series(RZero, z, RNeg(RMul(z, z)), 2, 2, 15)
CosSeries(z) == Series(RZero, ROne, RNeg(RMul(z, z)), 1, 2, 16)

\* sin y for y in (-pi, pi]: folded into [-pi/2, pi/2]
SinFolded(y) ==
    SinSeries(IF RGt(y, HalfPi) THEN RSub(M_PI, y)
              ELSE IF RLt(y, RNeg(HalfPi)) THEN RSub(RNeg(M_PI), y)
              ELSE y)

\* cos y for y in (-pi, pi]: cos y = -cos(pi - |y|) beyond pi/2
Flipped(c, beyond) == IF beyond THEN RNeg(c) ELSE c
CosFolded(y, beyond) ==
    Flipped(CosSeries(IF beyond THEN RSub(M_PI, RAbs(y)) ELSE y), beyond)
CosReduced(y) == CosFolded(y, RGt(RAbs(y), HalfPi))

\* std::sin and std::cos; NaN for a non-finite argument
RSin(x) == IF ~IsFinite(x) THEN RNaN ELSE SinFolded(RModTwoPi(x))
RCos(x) == IF ~IsFinite(x) THEN RNaN ELSE CosReduced(RModTwoPi(x))

\* k >= 1 steps of Heron's iteration from y, taken in two halves
RECURSIVE SqrtIter(_, _, _)
SqrtIter(x, y, k) ==
    IF k = 1 THEN RMul(RHalf, RAdd(y, RDiv(x, y)))
    ELSE CHOOSE out \in { SqrtIter(x, half, k - (k \div 2)) :
                              half \in {SqrtIter(x, y, k \div 2)} } : TRUE

\* std::sqrt of x >= 0 by Heron's iteration from a power of two
RSqrt(x) ==
    IF IsNaN(x) \/ x.m < 0 THEN RNaN
    ELSE IF x.m = 0 \/ IsInf(x) THEN x
    ELSE SqrtIter(x, [m |-> MantLo, e |-> ((x.e + 27) \div 2) - 26], 6)

(***************************************************************************)
(* State                                                                   *)
(***************************************************************************)
VARIABLES
    \* uniform_sphere_xyz
    sp_pc,           \* "idle", "while", "for", "done"
    nphi_at_equator, \* the argument of uniform_sphere_xyz
    theta,           \* the latitude of the current ring
    phi0,            \* the longitude offset of the current ring
    nphi,            \* the number of longitudes of the current ring
    dphi,            \* the longitude step of the current ring
    iphi,            \* the loop index of the inner for loop
    xyz,             \* the vector returned: a sequence of <<x, y, z>>
    xyz_nphi,        \* history: for each entry of xyz, the nphi of its ring
    rings,           \* history: the nphi of each ring entered, in order
    \* minerbo_Z and minerbo_closure
    mz_pc,           \* "idle", "start", "loop", "return", "error", "closed"
    fluxfac,         \* the argument of minerbo_Z
    Z,               \* the local Z of minerbo_Z, its return value at "return"
    residual,        \* the local residual of minerbo_Z
    count,           \* the local count of minerbo_Z
    mu,              \* the argument mu of minerbo_closure
    angular_factor,  \* *result of minerbo_closure
    \* InitParticles
    ip_pc,           \* "idle", "setup", "tiles", "reduce", "done"
    NUM_FLAVORS,     \* the compile-time number of flavors, 2 or 3
    parms,           \* the TestParams record
    tile_box,        \* the tile boxes of the particle box array, by tile
    rng,             \* the seed of amrex::Random
    geom,            \* the locals dx, plo and a_bounds of InitParticles
    scale_fac,       \* the local scale_fac of InitParticles
    direction_vectors,
    random_numbers,
    st5,             \* Ze, Za, Zx and the three flux factors of recipe 5
    the_next_id,     \* the counter behind ParticleType::NextID
    critical,        \* the tile whose iteration is inside the omp critical section, or 0
    t_pc,            \* by tile: "count", "scan", "enter", "resize", "getid", "setid",
                     \*          "leave", "write", "done", "skipped"
    counts,          \* by tile: the counts vector, indexed from 0
    offsets,         \* by tile: the offsets vector, indexed from 0
    num_to_add,      \* by tile
    new_pid,         \* by tile
    old_size,        \* by tile
    particle_tile,   \* by tile: the array of structs, a sequence of particles
    count_log,       \* history, by tile: the tasks of the count pass that have run
    write_log,       \* history, by tile: the tasks of the write pass that have run
    stray,           \* history, by tile: slot indices written beyond the array
    fatal,           \* "" or the reason the program was aborted
    \* PerturbParticlesLyapunov, ComputeStateSpaceDifferenceLyapunov,
    \* RenormalizePerturbationLyapunov
    ly_pc,           \* "idle", "ready", or the call made last: "Perturb", "Distance", "Renormalize"
    ly_calls,        \* the number of calls made
    current,         \* *this: the particle tiles of the container, a sequence of tiles
    given,           \* the reference container
    amplitude,       \* parms->Perturbation_Amplitud_Lyapunov
    ss_vector_diff,  \* the value ComputeStateSpaceDifferenceLyapunov returned last
    printed,         \* what the last call wrote with amrex::Print, in order
    aborted,         \* whether the last call aborted the run
    before,          \* history: current as it was when the last call began
    matched,         \* history: the pairings the last call made, in order
    passed,          \* history: the ss_vector_diff argument of the last Renormalize
    built,           \* history: the two containers as they were built
    \* get_position_unit_cell, called as the loops over i_part call it
    gp_nppc,         \* the argument nppc
    gp_i_part,       \* the argument i_part of the next call
    gp_r,            \* the array r the last call has filled
    gp_seen          \* history: r by i_part, for the calls made

minerboVars == <<mz_pc, fluxfac, Z, residual, count, mu, angular_factor>>

ipFixed == <<ip_pc, NUM_FLAVORS, parms, tile_box, geom, scale_fac, direction_vectors,
             random_numbers, st5, the_next_id, critical, t_pc, counts, offsets, num_to_add,
             new_pid, old_size, particle_tile, count_log, write_log, stray, fatal>>

ipVars == <<ipFixed, rng>>

sphereVars == <<sp_pc, nphi_at_equator, theta, phi0, nphi, dphi, iphi, xyz, xyz_nphi, rings>>

lyVars == <<ly_pc, ly_calls, current, given, amplitude, ss_vector_diff, printed, aborted,
            before, matched, passed, built>>

latticeVars == <<gp_nppc, gp_i_part, gp_r, gp_seen>>

vars == <<latticeVars, sphereVars, minerboVars, ipVars, lyVars>>

(***************************************************************************)
(* uniform_sphere_xyz: latitude rings from the equator to the pole          *)
(***************************************************************************)
MaxNphi == 8

\* Real dtheta = M_PI*std::sqrt(3)/nphi_at_equator;
dtheta(n) == RDiv(RMul(M_PI, RSqrt(R(3))), R(n))

\* int nphi = theta==0 ? nphi_at_equator : lround(nphi_at_equator * std::cos(theta));
RingCount(n, th) == IF th = RZero THEN n ELSE RLround(RMul(R(n), RCos(th)))

\* the point pushed for longitude index i of the current ring
RingPointAt(cos_theta, sin_theta, phi) ==
    <<RMul(cos_theta, RCos(phi)), RMul(cos_theta, RSin(phi)), sin_theta>>

RingPoint(th, p0, dp, i) == RingPointAt(RCos(th), RSin(th), RAdd(p0, RMul(R(i), dp)))

Negated(v) == <<RNeg(v[1]), RNeg(v[2]), RNeg(v[3])>>

\* if(theta>0) xyz.push_back(GpuArray<Real,3>{-x,-y,-z});
PushesOpposite(th) == RGt(th, RZero)

\* the entries one pass of the inner loop appends to xyz
Pushed(v, th) == IF PushesOpposite(th) THEN <<v, Negated(v)>> ELSE <<v>>

\* the entries one ring appends to xyz: those of longitude 0, of longitude 1, ...
RingWidth(th) == IF PushesOpposite(th) THEN 2 ELSE 1
RingPoints(th, p0, dp, c) ==
    [j \in 1..(c * RingWidth(th)) |->
        Pushed(RingPoint(th, p0, dp, (j - 1) \div RingWidth(th)), th)[((j - 1) % RingWidth(th)) + 1]]

\* Real dphi = 2.*M_PI/nphi;
RingStep(c) == RDiv(TwoPi, R(c))

\* if(nphi==1) theta = M_PI/2.;
RingTheta(c, th) == IF c = 1 THEN HalfPi ELSE th

RECURSIVE SphereLoop(_, _, _)
\* the ring of c longitudes at latitude th, and the rings above it
SphereFrom(n, th, p0, c) ==
    CHOOSE out \in { ring \o SphereLoop(n, th2, p2) :
                         ring \in {RingPoints(RingTheta(c, th), p0, RingStep(c), c)},
                         th2 \in {RAdd(RingTheta(c, th), dtheta(n))},
                         p2 \in {RAdd(p0, RMul(RHalf, RingStep(c)))} } : TRUE

SphereLoop(n, th, p0) ==
    IF RLt(th, HalfPi)
    THEN CHOOSE out \in {SphereFrom(n, th, p0, c) : c \in {RingCount(n, th)}} : TRUE
    ELSE <<>>

\* uniform_sphere_xyz as a function: the vector it returns
uniform_sphere_xyz(n) == SphereLoop(n, RZero, RZero)

SphereIdle ==
    /\ sp_pc = "idle"
    /\ nphi_at_equator = 0
    /\ theta = RZero
    /\ phi0 = RZero
    /\ nphi = 0
    /\ dphi = RZero
    /\ iphi = 0
    /\ xyz = <<>>
    /\ xyz_nphi = <<>>
    /\ rings = <<>>

\* AMREX_ASSERT(nphi_at_equator>0); Real theta = 0; Real phi0 = 0;
SphereInit ==
    /\ sp_pc = "while"
    /\ nphi_at_equator \in 1..MaxNphi
    /\ theta = RZero
    /\ phi0 = RZero
    /\ nphi = 0
    /\ dphi = RZero
    /\ iphi = 0
    /\ xyz = <<>>
    /\ xyz_nphi = <<>>
    /\ rings = <<>>

\* int nphi = ...; Real dphi = 2.*M_PI/nphi; if(nphi==1) theta = M_PI/2.;
SphereEnterRing(c) ==
    /\ nphi' = c
    /\ rings' = Append(rings, c)
    /\ dphi' = RingStep(c)
    /\ theta' = RingTheta(c, theta)
    /\ iphi' = 0
    /\ sp_pc' = "for"

\* while(theta < M_PI/2.){ ... }
SphereRing ==
    /\ sp_pc = "while"
    /\ IF RLt(theta, HalfPi)
       THEN SphereEnterRing(RingCount(nphi_at_equator, theta))
       ELSE /\ sp_pc' = "done"
            /\ UNCHANGED <<nphi, dphi, theta, iphi, rings>>
    /\ UNCHANGED <<nphi_at_equator, phi0, xyz, xyz_nphi>>

\* one pass of the body of for(int iphi=0; iphi<nphi; iphi++)
SpherePush ==
    /\ sp_pc = "for"
    /\ iphi < nphi
    /\ xyz' = xyz \o Pushed(RingPoint(theta, phi0, dphi, iphi), theta)
    /\ xyz_nphi' = xyz_nphi \o (IF PushesOpposite(theta) THEN <<nphi, nphi>> ELSE <<nphi>>)
    /\ iphi' = iphi + 1
    /\ UNCHANGED <<sp_pc, nphi_at_equator, theta, phi0, nphi, dphi, rings>>

\* theta += dtheta; phi0 = phi0 + 0.5*dphi;
SphereAdvance ==
    /\ sp_pc = "for"
    /\ iphi >= nphi
    /\ theta' = RAdd(theta, dtheta(nphi_at_equator))
    /\ phi0' = RAdd(phi0, RMul(RHalf, dphi))
    /\ sp_pc' = "while"
    /\ UNCHANGED <<nphi_at_equator, nphi, dphi, iphi, xyz, xyz_nphi, rings>>

(***************************************************************************)
(* minerbo_Z: Newton-Raphson root of the Minerbo residual                  *)
(***************************************************************************)
maxresidual == [m |-> 70368744, e |-> -46]    \* 1e-6
maxcount == 20
minfluxfac == [m |-> 68719477, e |-> -36]     \* 1e-3

ResidualFrom(f, z, th) == RAdd(RSub(f, RDiv(ROne, th)), RDiv(ROne, z))
minerbo_residual(f, z) == CHOOSE r \in {ResidualFrom(f, z, th) : th \in {RTanh(z)}} : TRUE

Squared(x) == RMul(x, x)

DerivativeFrom(z, sh) == RSub(RDiv(ROne, Squared(sh)), RDiv(ROne, RMul(z, z)))
minerbo_residual_derivative(f, z) ==
    CHOOSE d \in {DerivativeFrom(z, sh) : sh \in {RSinh(z)}} : TRUE

\* the flux factors minerbo_Z is called with, in units of 1e-4
FluxFacUnit == 10000
FluxFacSamples == {0, 5, 9, 1000, 3000, 6000, 9000, 10000, 20000}

\* the flux factor coth(1) - 1 + r'(1) = 0.0370969..., for which the first
\* Newton step Z - r(Z)/r'(Z) from the initial Z = 1 is exactly 0
SingularFluxFac ==
    RAdd(RSub(RDiv(ROne, RTanh(ROne)), ROne), minerbo_residual_derivative(RZero, ROne))

FluxFacs == {RQ(k, FluxFacUnit) : k \in FluxFacSamples} \cup {SingularFluxFac}
\* the direction cosines minerbo_closure is called with, in units of 1/2
MuSamples == {-2, -1, 0, 1, 2}

\* while(std::abs(residual)>maxresidual and count<maxcount)
LoopCondition(res, cnt) == RGt(RAbs(res), maxresidual) /\ cnt < maxcount

\* the convergence test with the sign of the residual reversed
FailedToConverge_Negative(res) == RLt(res, RNeg(maxresidual))

\* if(residual>maxresidual) amrex::Error(...)
FailedToConverge(res) == RGt(res, maxresidual)

\* Real slope = minerbo_residual_derivative(fluxfac, Z); Z -= residual/slope;
NewtonStep(f, z, res) ==
    CHOOSE out \in { RSub(z, RDiv(res, slope)) :
                         slope \in {minerbo_residual_derivative(f, z)} } : TRUE

\* one pass of the loop body from the state s, r the residual at s.Z
NewtonMoved(f, s, r) ==
    [Z |-> NewtonStep(f, s.Z, r), residual |-> r, count |-> s.count + 1]

\* the state n passes of the while loop leave (n >= 1), the passes taken in two
\* halves; the loop is left as soon as its condition fails
RECURSIVE NewtonLoop(_, _, _)
NewtonLoop(f, s, n) ==
    IF ~LoopCondition(s.residual, s.count) THEN s
    ELSE IF n = 1
         THEN CHOOSE out \in {NewtonMoved(f, s, r) : r \in {minerbo_residual(f, s.Z)}} : TRUE
    ELSE CHOOSE out \in {NewtonLoop(f, half, n - (n \div 2)) :
                              half \in {NewtonLoop(f, s, n \div 2)}} : TRUE

\* Real residual = 1.0; int count = 0; (Z = 1 at its declaration)
NewtonStart == [Z |-> ROne, residual |-> ROne, count |-> 0]

NewtonReturn(s) == [Z |-> s.Z, error |-> FailedToConverge(s.residual)]

\* minerbo_Z as a function: the Z returned, or error when amrex::Error is called
minerbo_Z(f) ==
    IF RLt(f, minfluxfac) THEN [Z |-> RMul(R(3), f), error |-> FALSE]
    ELSE NewtonReturn(NewtonLoop(f, NewtonStart, maxcount))

\* if(fluxfac < minfluxfac) Z = 3.*fluxfac; else{ Real residual = 1.0; int count = 0; ...
MinerboIdle ==
    /\ mz_pc = "idle"
    /\ fluxfac = RZero
    /\ Z = RZero
    /\ residual = RZero
    /\ count = 0
    /\ mu = RZero
    /\ angular_factor = RZero

MZ_Branch ==
    /\ mz_pc = "start"
    /\ IF RLt(fluxfac, minfluxfac)
       THEN /\ Z' = RMul(R(3), fluxfac)
            /\ mz_pc' = "return"
            /\ UNCHANGED <<residual, count>>
       ELSE /\ residual' = ROne
            /\ count' = 0
            /\ mz_pc' = "loop"
            /\ UNCHANGED Z
    /\ UNCHANGED <<fluxfac, mu, angular_factor>>
    /\ UNCHANGED <<latticeVars, sphereVars, ipVars, lyVars>>

\* one pass of the body of the while loop
MZ_Iterate ==
    /\ mz_pc = "loop"
    /\ LoopCondition(residual, count)
    /\ residual' = minerbo_residual(fluxfac, Z)
    /\ Z' = NewtonStep(fluxfac, Z, residual')
    /\ count' = count + 1
    /\ UNCHANGED <<mz_pc, fluxfac, mu, angular_factor>>
    /\ UNCHANGED <<latticeVars, sphereVars, ipVars, lyVars>>

\* the loop is left: the convergence check, then the return
MZ_Exit ==
    /\ mz_pc = "loop"
    /\ ~LoopCondition(residual, count)
    /\ mz_pc' = IF FailedToConverge(residual) THEN "error" ELSE "return"
    /\ UNCHANGED <<fluxfac, Z, residual, count, mu, angular_factor>>
    /\ UNCHANGED <<latticeVars, sphereVars, ipVars, lyVars>>

(***************************************************************************)
(* minerbo_closure                                                         *)
(***************************************************************************)
\* if(Z/3.0 > minfluxfac) *result *= Z/std::sinh(Z);
\* the closure's small-Z test without the division by three
ClosureScales_NoThird(z) == RGt(z, minfluxfac)

ClosureScales(z) == RGt(RDiv(z, R(3)), minfluxfac)

\* *result *= Z/std::sinh(Z), under its condition
ClosureScaled(result, z) ==
    IF ClosureScales(z)
    THEN CHOOSE out \in {RMul(result, RDiv(z, sh)) : sh \in {RSinh(z)}} : TRUE
    ELSE result

minerbo_closure(z, cosine) ==
    CHOOSE out \in {ClosureScaled(result, z) : result \in {RExp(RMul(z, cosine))}} : TRUE

MZ_Closure(cosine) ==
    /\ mz_pc = "return"
    /\ mu' = cosine
    /\ angular_factor' = minerbo_closure(Z, cosine)
    /\ mz_pc' = "closed"
    /\ UNCHANGED <<fluxfac, Z, residual, count>>
    /\ UNCHANGED <<latticeVars, sphereVars, ipVars, lyVars>>

(***************************************************************************)
(* InitParticles: the geometry and the index arithmetic of a tile          *)
(***************************************************************************)
MaxTileNphi == 2
MaxOldSize == 1

Box(lo, hi) == [lo |-> lo, hi |-> hi]

\* amrex::Box::numPts and the index range amrex::ParallelFor visits
BoxLength(b, d) == b.hi[d] - b.lo[d] + 1
numPts(b) == BoxLength(b, 1) * BoxLength(b, 2) * BoxLength(b, 3)
Cells(b) == {<<i, j, k>> : i \in b.lo[1]..b.hi[1], j \in b.lo[2]..b.hi[2], k \in b.lo[3]..b.hi[3]}

\* Geom(lev): the problem domain starts at the origin and has parms.L as its
\* lengths; the cell size is the length divided by the number of cells
Geom(pr) ==
    [plo |-> <<RZero, RZero, RZero>>,
     dx  |-> [d \in 1..3 |-> RDiv(pr.L[d], R(pr.ncell[d]))],
     lo  |-> <<RZero, RZero, RZero>>,
     hi  |-> pr.L]

nlocs_per_cell(pr) == pr.nppc[1] * pr.nppc[2] * pr.nppc[3]

\* a decomposition that divides by nz where the code divides by ny
get_position_unit_cell_ByNz(nppc, i_part) ==
    LET nx == nppc[1]
        ny == nppc[2]
        nz == nppc[3]
        ix_part == i_part \div (ny * nz)
        iy_part == (i_part % (ny * nz)) % ny
        iz_part == (i_part % (ny * nz)) \div nz
    IN  << RDiv(RAdd(RHalf, R(ix_part)), R(nx)),
           RDiv(RAdd(RHalf, R(iy_part)), R(ny)),
           RDiv(RAdd(RHalf, R(iz_part)), R(nz)) >>

get_position_unit_cell(nppc, i_part) ==
    LET nx == nppc[1]
        ny == nppc[2]
        nz == nppc[3]
        ix_part == i_part \div (ny * nz)
        iy_part == (i_part % (ny * nz)) % ny
        iz_part == (i_part % (ny * nz)) \div ny
    IN  << RDiv(RAdd(RHalf, R(ix_part)), R(nx)),
           RDiv(RAdd(RHalf, R(iy_part)), R(ny)),
           RDiv(RAdd(RHalf, R(iz_part)), R(nz)) >>

\* the largest number of positions per cell along an axis
MaxNppc == 3

LatticeIdle == gp_nppc = <<1, 1, 1>> /\ gp_i_part = 1 /\ gp_r = << >> /\ gp_seen = << >>

LatticeInit ==
    /\ gp_nppc \in (1..MaxNppc) \X (1..MaxNppc) \X (1..MaxNppc)
    /\ gp_i_part = 0
    /\ gp_r = << >>
    /\ gp_seen = << >>

\* one pass of for (int i_part=0; i_part<nlocs_per_cell; i_part++): the call
\* get_position_unit_cell(r, parms->nppc, i_part)
GP_Call ==
    /\ gp_i_part < gp_nppc[1] * gp_nppc[2] * gp_nppc[3]
    /\ gp_r' = get_position_unit_cell(gp_nppc, gp_i_part)
    /\ gp_seen' = (gp_i_part :> get_position_unit_cell(gp_nppc, gp_i_part)) @@ gp_seen
    /\ gp_i_part' = gp_i_part + 1
    /\ UNCHANGED gp_nppc

\* Real x = plo[0] + (i + r[0])*dx[0]; and so for y and z
Position(pr, cell, i_part) ==
    LET r == get_position_unit_cell(pr.nppc, i_part)
    IN  [d \in 1..3 |-> RAdd(geom.plo[d], RMul(RAdd(R(cell[d]), r[d]), geom.dx[d]))]

\* the domain test of the count pass: TRUE when the position is skipped
CountSkips(pos) ==
    \E d \in 1..3 : RGe(pos[d], geom.hi[d]) \/ RLt(pos[d], geom.lo[d])

\* a write pass without the domain test
WriteSkips_Never(pos) == FALSE

\* the domain test of the write pass: TRUE when the position is skipped
WriteSkips(pos) ==
    \E d \in 1..3 : RGe(pos[d], geom.hi[d]) \/ RLt(pos[d], geom.lo[d])

Clamp(n, i) == IMin(n - 1, IMax(0, i))

\* an index without the strides ny*nz and nz
CountCellId_NoStride(b, cell) ==
    Clamp(BoxLength(b, 1), cell[1] - b.lo[1]) + Clamp(BoxLength(b, 2), cell[2] - b.lo[2])
        + Clamp(BoxLength(b, 3), cell[3] - b.lo[3])

\* the cellid of the count pass
CountCellId(b, cell) ==
    LET nx == BoxLength(b, 1)
        ny == BoxLength(b, 2)
        nz == BoxLength(b, 3)
    IN  (Clamp(nx, cell[1] - b.lo[1]) * ny + Clamp(ny, cell[2] - b.lo[2])) * nz
            + Clamp(nz, cell[3] - b.lo[3])

\* the cellid of the write pass
WriteCellId(b, cell) ==
    LET nx == BoxLength(b, 1)
        ny == BoxLength(b, 2)
        nz == BoxLength(b, 3)
    IN  (Clamp(nx, cell[1] - b.lo[1]) * ny + Clamp(ny, cell[2] - b.lo[2])) * nz
            + Clamp(nz, cell[3] - b.lo[3])

\* the positions of a cell the count pass does not skip
CountAccepted(pr, cell) ==
    {i_part \in 0..(nlocs_per_cell(pr) - 1) : ~CountSkips(Position(pr, cell, i_part))}

\* the positions of a cell the write pass does not skip
WriteAccepted(pr, cell) ==
    {i_loc \in 0..(nlocs_per_cell(pr) - 1) : ~WriteSkips(Position(pr, cell, i_loc))}

RECURSIVE SumTo(_, _)
SumTo(c, k) == IF k < 0 THEN 0 ELSE c[k] + SumTo(c, k - 1)

\* a scan that leaves out the element itself
exclusive_scan(c) == [k \in DOMAIN c |-> SumTo(c, k - 1)]

\* Gpu::inclusive_scan(counts.begin(), counts.end(), offsets.begin())
inclusive_scan(c) == [k \in DOMAIN c |-> SumTo(c, k)]

\* const int pidx = poffset[cellid] - poffset[0] + i_loc*ndirs_per_loc + i_direction;
SlotIndex(poffset, cellid, i_loc, ndirs, i_direction) ==
    poffset[cellid] - poffset[0] + i_loc * ndirs + i_direction

(***************************************************************************)
(* InitParticles: the physical constants, the random numbers and the       *)
(* angular profiles the recipes use                                        *)
(***************************************************************************)
\* CGSUnitsConst::eV = 1.60218e-12 erg
eV == [m |-> 118220018, e |-> -66]

\* PhysConst::c4 = c^4, c = 2.99792458e10 cm/s
c4 == [m |-> 77784542, e |-> 113]

\* PhysConst::hbarc = 1.05457266e-27 erg s * c
hbarc == [m |-> 76441088, e |-> -81]

\* PhysConst::GF = 1.1663787e-5 / (1e9*1e9*eV*eV) * hbarc^3
GF == [m |-> 112662084, e |-> -189]

\* 50. * 1e6*CGSUnitsConst::eV
FiftyMeV == [m |-> 88080777, e |-> -40]

\* 1e6*CGSUnitsConst::eV
MeV == [m |-> 112743395, e |-> -46]

\* sqrt(2.) and std::sqrt(M_PI/2.0)
Sqrt2 == [m |-> 94906266, e |-> -26]
SqrtHalfPi == [m |-> 84108488, e |-> -26]

\* amrex::Random(): the k-th number of the stream the seed selects, in [0, 1)
RandomLevels == 4
Random(k) == RQ((rng + k) % RandomLevels, RandomLevels)

\* symmetric_uniform: *Usymmetric = 2. * (amrex::Random()-0.5);
symmetric_uniform(k) == RMul(RTwo, RSub(Random(k), RHalf))

\* std::erf to 1.5e-7: 1 - (a1 t + ... + a5 t^5) exp(-x^2) with t = 1/(1 + p x)
\* for x >= 0 (Abramowitz and Stegun 7.1.26)
ErfP == [m |-> 87937066, e |-> -28]      \* 0.3275911
ErfA1 == [m |-> 68405298, e |-> -28]     \* 0.254829592
ErfA2 == [m |-> -76369011, e |-> -28]    \* -0.284496736
ErfA3 == [m |-> 95389461, e |-> -26]     \* 1.421413741
ErfA4 == [m |-> -97519382, e |-> -26]    \* -1.453152027
ErfA5 == [m |-> 71229713, e |-> -26]     \* 1.061405429

ErfPoly(t) ==
    RMul(t, RAdd(ErfA1, RMul(t, RAdd(ErfA2, RMul(t, RAdd(ErfA3,
        RMul(t, RAdd(ErfA4, RMul(t, ErfA5)))))))))

ErfPositive(x) ==
    CHOOSE out \in { RSub(ROne, RMul(ErfPoly(t), ex)) :
                         t \in {RDiv(ROne, RAdd(ROne, RMul(ErfP, x)))},
                         ex \in {RExp(RNeg(RMul(x, x)))} } : TRUE

RErf(x) == IF IsNaN(x) THEN RNaN ELSE Flipped(ErfPositive(RAbs(x)), x.m < 0)

\* Real Ainverse = sigma * std::sqrt(M_PI/2.0) * std::erf(std::sqrt(2)/sigma);
Ainverse(sigma) ==
    CHOOSE out \in { RMul(RMul(sigma, SqrtHalfPi), erf) :
                         erf \in {RErf(RDiv(Sqrt2, sigma))} } : TRUE

gaussian_profile(sigma, cosine, mu0) ==
    CHOOSE out \in { RMul(RMul(RTwo, RDiv(ROne, ai)), ex) :
                         ai \in {Ainverse(sigma)},
                         ex \in {RExp(RDiv(RNeg(Squared(RSub(cosine, mu0))),
                                          RMul(RMul(RTwo, sigma), sigma)))} } : TRUE

(***************************************************************************)
(* InitParticles: the recipes, each as the fields it assigns to a particle *)
(***************************************************************************)
\* const Real scale_fac = dx[0]*dx[1]*dx[2]/nlocs_per_cell/ndirs_per_loc;
ScaleFac(g, nlocs, ndirs) ==
    RDiv(RDiv(RMul(RMul(g.dx[1], g.dx[2]), g.dx[3]), R(nlocs)), R(ndirs))

Norm3(x, y, z) == RSqrt(RAdd(RAdd(RMul(x, x), RMul(y, y)), RMul(z, z)))
Dot3(x, y, z, u) == RAdd(RAdd(RMul(x, u[1]), RMul(y, u[2])), RMul(z, u[3]))

\* Ze, Za, Zx from the three flux factors
St5From(fe, fa, fx, ze, za, zx) ==
    [fluxfac_e |-> fe, fluxfac_a |-> fa, fluxfac_x |-> fx,
     Ze |-> ze.Z, Za |-> za.Z, Zx |-> zx.Z,
     error |-> ze.error \/ za.error \/ zx.error]

St5Of(fe, fa, fx) == St5From(fe, fa, fx, minerbo_Z(fe), minerbo_Z(fa), minerbo_Z(fx))

\* the flux factors and the Z parameters InitParticles computes for recipe 5
St5Setup(pr) ==
    CHOOSE z5 \in { St5Of(fe, fa, fx) :
                        fe \in {Norm3(pr.st5_fxnue, pr.st5_fynue, pr.st5_fznue)},
                        fa \in {Norm3(pr.st5_fxnua, pr.st5_fynua, pr.st5_fznua)},
                        fx \in {Norm3(pr.st5_fxnux, pr.st5_fynux, pr.st5_fznux)} } : TRUE

St5Unset == [fluxfac_e |-> RZero, fluxfac_a |-> RZero, fluxfac_x |-> RZero,
             Ze |-> RZero, Za |-> RZero, Zx |-> RZero, error |-> FALSE]

\* pupt and pupx, pupy, pupz = u * pupt
Momentum(u, E) ==
    [pupt |-> E, pupx |-> RMul(u[1], E), pupy |-> RMul(u[2], E), pupz |-> RMul(u[3], E)]

Weights(n, nbar) == [N |-> n, Nbar |-> nbar]

\* N and Nbar of the two beams: w * (1. + u[2]) and w * (1. - u[2])
BeamWeights(w, uz) == Weights(RMul(w, RAdd(ROne, uz)), RMul(w, RSub(ROne, uz)))

\* the entries every build has
Flavor2(f00, f01re, f01im, f11, f00b, f01reb, f01imb, f11b) ==
    [f00_Re |-> f00, f01_Re |-> f01re, f01_Im |-> f01im, f11_Re |-> f11,
     f00_Rebar |-> f00b, f01_Rebar |-> f01reb, f01_Imbar |-> f01imb, f11_Rebar |-> f11b]

\* the entries of a build with NUM_FLAVORS==3
Flavor3(f22, f22b, f02re, f02im, f12re, f12im, f02reb, f02imb, f12reb, f12imb) ==
    [f22_Re |-> f22, f22_Rebar |-> f22b, f02_Re |-> f02re, f02_Im |-> f02im,
     f12_Re |-> f12re, f12_Im |-> f12im, f02_Rebar |-> f02reb, f02_Imbar |-> f02imb,
     f12_Rebar |-> f12reb, f12_Imbar |-> f12imb]

Flavor3Zero == Flavor3(RZero, RZero, RZero, RZero, RZero, RZero, RZero, RZero, RZero, RZero)

\* the electron state with the given 01 entries, as recipes 0 to 4 set it
ElectronState(F, f01re, f01im, f01reb, f01imb, extra) ==
    Flavor2(ROne, f01re, f01im, RZero, ROne, f01reb, f01imb, RZero)
        @@ (IF F = 3 THEN extra ELSE <<>>)

\* Real dm2 = (parms->mass2-parms->mass1)*(parms->mass2-parms->mass1);
dm2(pr) == Squared(RSub(pr.mass2, pr.mass1))

\* Real omega = dm2*PhysConst::c4 / (2.* p.rdata(PIdx::pupt));
omega(pr) == RDiv(RMul(dm2(pr), c4), RMul(RTwo, FiftyMeV))

\* Real mu_ndens = sqrt(2.) * PhysConst::GF;
mu_ndens == RMul(Sqrt2, GF)

Recipe0(pr, F, u) ==
    ElectronState(F, RZero, RZero, RZero, RZero, Flavor3Zero)
        @@ Weights(ROne, ROne)
        @@ Momentum(u, RDiv(RMul(RMul(dm2(pr), c4), RSin(RMul(RTwo, pr.theta12))),
                            RMul(RMul(R(8), M_PI), hbarc)))

\* double ndens = 10. * dm2*PhysConst::c4 / (2.*sqrt(2.) * PhysConst::GF * p.rdata(PIdx::pupt));
ndens1(pr) ==
    RDiv(RMul(RMul(R(10), dm2(pr)), c4), RMul(RMul(RMul(RTwo, Sqrt2), GF), FiftyMeV))

Recipe1(pr, F, u, sf) ==
    ElectronState(F, RZero, RZero, RZero, RZero, Flavor3Zero)
        @@ Momentum(u, FiftyMeV)
        @@ Weights(RMul(ndens1(pr), sf), RMul(ndens1(pr), sf))

Recipe2(pr, F, u, sf) ==
    ElectronState(F, RZero, RZero, RZero, RZero, Flavor3Zero)
        @@ Momentum(u, FiftyMeV)
        @@ BeamWeights(RMul(RDiv(omega(pr), RMul(RTwo, mu_ndens)), sf), u[3])

\* Real lambda = domain_length_z/(Real)...; Real k = (2.*M_PI) / lambda;
k3(pr) == RDiv(TwoPi, RDiv(pr.L[3], R(pr.st3_wavelength_fraction_of_domain)))

\* f01_Re and f01_Rebar = parms->st3_amplitude*sin(k*p.pos(2))
Perturbed3(F, pert) == ElectronState(F, pert, RZero, pert, RZero, Flavor3Zero)

Recipe3(pr, F, u, sf, pos) ==
    (CHOOSE out \in { Perturbed3(F, RMul(pr.st3_amplitude, sn)) :
                          sn \in {RSin(RMul(k3(pr), pos[3]))} } : TRUE)
        @@ Momentum(u, FiftyMeV)
        @@ BeamWeights(RMul(RDiv(RAdd(omega(pr), RMul(k3(pr), hbarc)),
                                 RMul(RTwo, mu_ndens)), sf), u[3])

\* parms->st4_amplitude*rand, rand being draw j of the particle
amplitude4(pr, key, j) == RMul(pr.st4_amplitude, symmetric_uniform(key + j))

\* fhat[0]*u[0] + fhat[1]*u[1] + fhat[2]*u[2] for the fhat of the angles phi, theta
costheta4(phi, th, u) ==
    CHOOSE out \in { Dot3(RMul(cp, st), RMul(sp, st), ct, u) :
                         cp \in {RCos(phi)}, sp \in {RSin(phi)},
                         st \in {RSin(th)}, ct \in {RCos(th)} } : TRUE

\* ndens*scale_fac * (1. + 3.*fluxfac*costheta)
weight4(nd, sf, ff, costheta) ==
    RMul(RMul(nd, sf), RAdd(ROne, RMul(RMul(R(3), ff), costheta)))

\* key is the position in the random stream of the first draw for this particle
Recipe4(pr, F, u, sf, key) ==
    ElectronState(F, amplitude4(pr, key, 0), amplitude4(pr, key, 1),
                  amplitude4(pr, key, 2), amplitude4(pr, key, 3),
                  Flavor3(RZero, RZero, amplitude4(pr, key, 4), amplitude4(pr, key, 5),
                          RZero, RZero, amplitude4(pr, key, 6), amplitude4(pr, key, 7),
                          RZero, RZero))
        @@ Momentum(u, FiftyMeV)
        @@ Weights(weight4(pr.st4_ndens, sf, pr.st4_fluxfac,
                           costheta4(pr.st4_phi, pr.st4_theta, u)),
                   weight4(pr.st4_ndensbar, sf, pr.st4_fluxfacbar,
                           costheta4(pr.st4_phibar, pr.st4_thetabar, u)))

\* Real mue = fluxfac_e>0 ? (fx*u[0] + fy*u[1] + fz*u[2])/fluxfac_e : 0;
FluxCosine(fx, fy, fz, u, ff) ==
    IF RGt(ff, RZero) THEN RDiv(Dot3(fx, fy, fz, u), ff) ELSE RZero

\* parms->st5_nn*scale_fac * angular_factor, after minerbo_closure(&angular_factor, Z, mu)
N5(nn, sf, z, cosine) == RMul(RMul(nn, sf), minerbo_closure(z, cosine))

\* p.rdata(PIdx::N) = Nnue + Nnux; and with NUM_FLAVORS==3, += Nnux
Total5(F, Nnu, Nnux) == IF F = 3 THEN RAdd(RAdd(Nnu, Nnux), Nnux) ELSE RAdd(Nnu, Nnux)

\* parms->st5_amplitude*rand * (a - b), rand being draw j of the particle
perturbation5(pr, key, j, a, b) ==
    RMul(RMul(pr.st5_amplitude, symmetric_uniform(key + j)), RSub(a, b))

\* the density matrices of recipe 5 from their diagonals
Flavor5(pr, F, key, f00, f11, f22, f00b, f11b, f22b) ==
    Flavor2(f00, perturbation5(pr, key, 0, f00, f11), perturbation5(pr, key, 1, f00, f11), f11,
            f00b, perturbation5(pr, key, 2, f00b, f11b), perturbation5(pr, key, 3, f00b, f11b),
            f11b)
        @@ (IF F = 3
            THEN Flavor3(f22, f22b,
                         perturbation5(pr, key, 4, f00, f22), perturbation5(pr, key, 5, f00, f22),
                         perturbation5(pr, key, 6, f11, f22), perturbation5(pr, key, 7, f11, f22),
                         perturbation5(pr, key, 8, f00b, f22b), perturbation5(pr, key, 9, f00b, f22b),
                         perturbation5(pr, key, 10, f11b, f22b), perturbation5(pr, key, 11, f11b, f22b))
            ELSE <<>>)

\* the on-diagonals: the number of each flavor over N, and over Nbar
Diagonal5(pr, F, key, Nnue, Nnua, Nnux, n, nbar) ==
    Weights(n, nbar)
        @@ (CHOOSE out \in { Flavor5(pr, F, key, f00, f11, f11, f00b, f11b, f11b) :
                                 f00 \in {RDiv(Nnue, n)}, f11 \in {RDiv(Nnux, n)},
                                 f00b \in {RDiv(Nnua, nbar)},
                                 f11b \in {RDiv(Nnux, nbar)} } : TRUE)

Numbers5(pr, F, key, Nnue, Nnua, Nnux) ==
    CHOOSE out \in { Diagonal5(pr, F, key, Nnue, Nnua, Nnux, n, nbar) :
                         n \in {Total5(F, Nnue, Nnux)},
                         nbar \in {Total5(F, Nnua, Nnux)} } : TRUE

\* Nnue, Nnua and Nnux (a quarter of the heavy-lepton number) of one direction
Nnue5(pr, u, sf, z5) ==
    CHOOSE out \in { N5(pr.st5_nnue, sf, z5.Ze, mue) :
        mue \in {FluxCosine(pr.st5_fxnue, pr.st5_fynue, pr.st5_fznue, u, z5.fluxfac_e)} } : TRUE
Nnua5(pr, u, sf, z5) ==
    CHOOSE out \in { N5(pr.st5_nnua, sf, z5.Za, mua) :
        mua \in {FluxCosine(pr.st5_fxnua, pr.st5_fynua, pr.st5_fznua, u, z5.fluxfac_a)} } : TRUE
Nnux5(pr, u, sf, z5) ==
    CHOOSE out \in { RDiv(N5(pr.st5_nnux, sf, z5.Zx, mux), R(4)) :
        mux \in {FluxCosine(pr.st5_fxnux, pr.st5_fynux, pr.st5_fznux, u, z5.fluxfac_x)} } : TRUE

Recipe5(pr, F, u, sf, z5, key) ==
    Momentum(u, RMul(pr.st5_avgE_MeV, MeV))
        @@ (CHOOSE out \in { Numbers5(pr, F, key, Nnue, Nnua, Nnux) :
                                 Nnue \in {Nnue5(pr, u, sf, z5)},
                                 Nnua \in {Nnua5(pr, u, sf, z5)},
                                 Nnux \in {Nnux5(pr, u, sf, z5)} } : TRUE)

\* random_numbers_p[i]; garbage is what a read outside the array yields
ReadRandom(table, i, garbage) == IF i \in DOMAIN table THEN table[i] ELSE garbage

\* int amax = parms->st6_amax * Nz/2;
amax6(pr) == RTrunc(RDiv(RMul(pr.st6_amax, R(pr.ncell[3])), RTwo))

\* Real phase = ka*z + 2.*M_PI*random_numbers_p[a+Nz/2]; with ka = 2.*M_PI * a / parms->Lz
phase6(pr, z, table, garbage, a) ==
    RAdd(RMul(RDiv(RMul(TwoPi, R(a)), pr.Lz), z),
         RMul(TwoPi, ReadRandom(table, a + (pr.ncell[3] \div 2), garbage)))

\* f01_Re += 0.5 * B * cos(phase); f01_Im += 0.5 * B * sin(phase);
Mode6(f01, B, phase) ==
    CHOOSE out \in { << RAdd(f01[1], RMul(RMul(RHalf, B), c)),
                        RAdd(f01[2], RMul(RMul(RHalf, B), sn)) >> :
                         c \in {RCos(phase)}, sn \in {RSin(phase)} } : TRUE

\* the body of for(int a=-amax; a<=amax; a++) of recipe 6, from a on
RECURSIVE Modes6(_, _, _, _, _, _, _)
Modes6(pr, z, table, garbage, a, amax, f01) ==
    IF a > amax THEN f01
    ELSE CHOOSE out \in { Modes6(pr, z, table, garbage, a + 1, amax, added) :
             added \in { IF a = 0 THEN f01
                         ELSE Mode6(f01, RDiv(pr.st6_amplitude, RAbs(R(a))),
                                    phase6(pr, z, table, garbage, a)) } } : TRUE

\* f01_Rebar = f01_Re; f01_Imbar = -f01_Im;
Flavor6(f01) == Flavor2(ROne, f01[1], f01[2], RZero, ROne, f01[1], RNeg(f01[2]), RZero)

Recipe6(pr, u, sf, pos, table, garbage) ==
    Momentum(u, FiftyMeV)
        @@ Weights(RMul(RMul(pr.st6_nnue, sf),
                        gaussian_profile(pr.st6_sigma, u[3], pr.st6_mu0)),
                   RMul(RMul(pr.st6_nnua, sf),
                        gaussian_profile(pr.st6_sigmabar, u[3], pr.st6_mu0bar)))
        @@ Flavor6(Modes6(pr, pos[3], table, garbage, -amax6(pr), amax6(pr), <<RZero, RZero>>))

\* Real P1 = parms->st7_amplitude * std::exp(-zprime*zprime/(2.*sigma_pert*sigma_pert));
P1(pr, zprime) ==
    CHOOSE out \in { RMul(pr.st7_amplitude, ex) :
        ex \in {RExp(RDiv(RNeg(RMul(zprime, zprime)),
                          RMul(RMul(RTwo, pr.st7_sigma_pert), pr.st7_sigma_pert)))} } : TRUE

\* f01_Re = P1 / 2.0; f01_Im = 0; f01_Rebar = f01_Re; f01_Imbar = -f01_Im;
Flavor7(f01_Re) == Flavor2(ROne, f01_Re, RZero, RZero, ROne, f01_Re, RNeg(RZero), RZero)

Recipe7(pr, u, sf, pos) ==
    Momentum(u, FiftyMeV)
        @@ Weights(RMul(RMul(pr.st7_nnue, sf),
                        gaussian_profile(pr.st7_sigma, u[3], pr.st7_mu0)),
                   RMul(RMul(pr.st7_nnua, sf),
                        gaussian_profile(pr.st7_sigmabar, u[3], pr.st7_mu0bar)))
        @@ Flavor7(RDiv(P1(pr, RSub(pos[3], pr.Lz)), RTwo))

ValidSimulationTypes == 0..7

\* the chain of if(parms->simulation_type==...) of the write pass
Recipe(pr, F, u, sf, pos, z5, table, key, garbage) ==
    CASE pr.simulation_type = 0 -> Recipe0(pr, F, u)
      [] pr.simulation_type = 1 -> Recipe1(pr, F, u, sf)
      [] pr.simulation_type = 2 -> Recipe2(pr, F, u, sf)
      [] pr.simulation_type = 3 -> Recipe3(pr, F, u, sf, pos)
      [] pr.simulation_type = 4 -> Recipe4(pr, F, u, sf, key)
      [] pr.simulation_type = 5 -> Recipe5(pr, F, u, sf, z5, key)
      [] pr.simulation_type = 6 -> Recipe6(pr, u, sf, pos, table, garbage)
      [] pr.simulation_type = 7 -> Recipe7(pr, u, sf, pos)
      [] OTHER -> <<>>

(***************************************************************************)
(* InitParticles: the steps of one call                                    *)
(***************************************************************************)
Tiles == DOMAIN tile_box
ndirs_per_loc == Len(direction_vectors)

\* a slot of the array of structs that resize has added and nothing has written
Unwritten == [id |-> -1]

Running == fatal = ""

\* a region any number of threads may be inside
CriticalFree_Always == TRUE

\* #pragma omp critical: a thread enters when no other thread is inside
CriticalFree == critical = 0

\* the lines of InitParticles before the loop over the tiles
IP_Setup ==
    /\ Running /\ ip_pc = "setup"
    /\ geom' = Geom(parms)
    /\ direction_vectors' = uniform_sphere_xyz(parms.nphi_equator)
    /\ scale_fac' = ScaleFac(Geom(parms), nlocs_per_cell(parms),
                             Len(uniform_sphere_xyz(parms.nphi_equator)))
    /\ random_numbers' = [i \in 0..(parms.ncell[1] * parms.ncell[2] * parms.ncell[3] - 1) |->
                              symmetric_uniform(i)]
    /\ LET z5 == IF parms.simulation_type = 5 THEN St5Setup(parms) ELSE St5Unset
       IN  /\ st5' = z5
           /\ fatal' = IF z5.error THEN "Newton-Raphson failed to converge" ELSE ""
    /\ ip_pc' = "tiles"
    /\ UNCHANGED <<NUM_FLAVORS, parms, tile_box, rng, the_next_id, critical, t_pc, counts,
                   offsets, num_to_add, new_pid, old_size, particle_tile, count_log,
                   write_log, stray>>

\* one task of the first amrex::ParallelFor
IP_CountCell(t, cell) ==
    /\ Running /\ ip_pc = "tiles" /\ t_pc[t] = "count"
    /\ \A e \in count_log[t] : e.cell # cell
    /\ LET acc    == CountAccepted(parms, cell)
           cellid == CountCellId(tile_box[t], cell)
       IN  /\ counts' = [counts EXCEPT ![t][cellid] = @ + Cardinality(acc) * ndirs_per_loc]
           /\ count_log' = [count_log EXCEPT ![t] =
                               @ \cup {[cell |-> cell, cellid |-> cellid, accepted |-> acc]}]
    /\ UNCHANGED <<ip_pc, NUM_FLAVORS, parms, tile_box, rng, geom, scale_fac, direction_vectors, random_numbers,
                   st5, the_next_id, critical, t_pc, offsets, num_to_add, new_pid, old_size,
                   particle_tile, write_log, stray, fatal>>

CountPassOver(t) == {e.cell : e \in count_log[t]} = Cells(tile_box[t])

\* Gpu::inclusive_scan; int num_to_add = offsets[numPts-1]; if (num_to_add == 0) continue;
IP_Scan(t) ==
    /\ Running /\ ip_pc = "tiles" /\ t_pc[t] = "count"
    /\ CountPassOver(t)
    /\ LET o == inclusive_scan(counts[t])
           n == o[numPts(tile_box[t]) - 1]
       IN  /\ offsets' = [offsets EXCEPT ![t] = o]
           /\ num_to_add' = [num_to_add EXCEPT ![t] = n]
           /\ t_pc' = [t_pc EXCEPT ![t] = IF n = 0 THEN "skipped" ELSE "enter"]
    /\ UNCHANGED <<ip_pc, NUM_FLAVORS, parms, tile_box, rng, geom, scale_fac, direction_vectors, random_numbers,
                   st5, the_next_id, critical, counts, new_pid, old_size, particle_tile,
                   count_log, write_log, stray, fatal>>

IP_Enter(t) ==
    /\ Running /\ ip_pc = "tiles" /\ t_pc[t] = "enter"
    /\ CriticalFree
    /\ critical' = t
    /\ t_pc' = [t_pc EXCEPT ![t] = "resize"]
    /\ UNCHANGED <<ip_pc, NUM_FLAVORS, parms, tile_box, rng, geom, scale_fac, direction_vectors, random_numbers,
                   st5, the_next_id, counts, offsets, num_to_add, new_pid, old_size,
                   particle_tile, count_log, write_log, stray, fatal>>

\* auto old_size = ...size(); auto new_size = old_size + num_to_add; particle_tile.resize(new_size);
IP_Resize(t) ==
    /\ Running /\ ip_pc = "tiles" /\ t_pc[t] = "resize"
    /\ old_size' = [old_size EXCEPT ![t] = Len(particle_tile[t])]
    /\ particle_tile' = [particle_tile EXCEPT ![t] = @ \o [k \in 1..num_to_add[t] |-> Unwritten]]
    /\ t_pc' = [t_pc EXCEPT ![t] = "getid"]
    /\ UNCHANGED <<ip_pc, NUM_FLAVORS, parms, tile_box, rng, geom, scale_fac, direction_vectors, random_numbers,
                   st5, the_next_id, critical, counts, offsets, num_to_add, new_pid,
                   count_log, write_log, stray, fatal>>

\* new_pid = ParticleType::NextID(); the call returns the counter and adds one to it
IP_GetID(t) ==
    /\ Running /\ ip_pc = "tiles" /\ t_pc[t] = "getid"
    /\ new_pid' = [new_pid EXCEPT ![t] = the_next_id]
    /\ the_next_id' = the_next_id + 1
    /\ t_pc' = [t_pc EXCEPT ![t] = "setid"]
    /\ UNCHANGED <<ip_pc, NUM_FLAVORS, parms, tile_box, rng, geom, scale_fac, direction_vectors, random_numbers,
                   st5, critical, counts, offsets, num_to_add, old_size, particle_tile,
                   count_log, write_log, stray, fatal>>

\* ParticleType::NextID(new_pid + num_to_add);
IP_SetID(t) ==
    /\ Running /\ ip_pc = "tiles" /\ t_pc[t] = "setid"
    /\ the_next_id' = new_pid[t] + num_to_add[t]
    /\ t_pc' = [t_pc EXCEPT ![t] = "leave"]
    /\ UNCHANGED <<ip_pc, NUM_FLAVORS, parms, tile_box, rng, geom, scale_fac, direction_vectors, random_numbers,
                   st5, critical, counts, offsets, num_to_add, new_pid, old_size,
                   particle_tile, count_log, write_log, stray, fatal>>

\* pstruct = particle_tile.GetArrayOfStructs()().data(); and the end of the critical section
IP_Leave(t) ==
    /\ Running /\ ip_pc = "tiles" /\ t_pc[t] = "leave"
    /\ critical' = 0
    /\ t_pc' = [t_pc EXCEPT ![t] = "write"]
    /\ UNCHANGED <<ip_pc, NUM_FLAVORS, parms, tile_box, rng, geom, scale_fac, direction_vectors, random_numbers,
                   st5, the_next_id, counts, offsets, num_to_add, new_pid, old_size,
                   particle_tile, count_log, write_log, stray, fatal>>

\* int procID = ParallelDescriptor::MyProc(); one process runs
procID == 0

\* the position in the random stream of the first draw for slot pidx of tile t
RandomKey(t, pidx) == 3 * t + 5 * pidx

\* the assignments to p for one direction of one position
NewParticle(t, pos, i_direction, pidx, garbage) ==
    [id |-> new_pid[t] + pidx, cpu |-> procID, pos |-> pos,
     x |-> pos[1], y |-> pos[2], z |-> pos[3], time |-> RZero]
        @@ Recipe(parms, NUM_FLAVORS, direction_vectors[i_direction + 1],
                  scale_fac, pos, st5, random_numbers,
                  RandomKey(t, pidx), garbage)

\* the slots one task of the second amrex::ParallelFor addresses
CellSlots(t, cell) ==
    LET cellid == WriteCellId(tile_box[t], cell)
    IN  { [i_loc |-> i_loc, i_direction |-> i_direction,
           pidx |-> SlotIndex(offsets[t], cellid, i_loc, ndirs_per_loc, i_direction)] :
             i_loc \in WriteAccepted(parms, cell), i_direction \in 0..(ndirs_per_loc - 1) }

\* pstruct[pidx] is an element of the array
InArray(t, pidx) == pidx >= 0 /\ pidx < Len(particle_tile[t])

\* values an uninitialised or out-of-range read may yield
GarbageReals == {RZero, RQ(1, 4)}

\* the mode numbers a of the loop of recipe 6 that read the table
Modes6Read(pr) == { a \in (-amax6(pr))..amax6(pr) : a # 0 }

\* recipe 6 reads random_numbers_p[a+Nz/2] for a = -amax and a = amax
ReadsOutside ==
    /\ parms.simulation_type = 6
    /\ \E a \in Modes6Read(parms) : (a + (parms.ncell[3] \div 2)) \notin DOMAIN random_numbers

\* what the reads of one write task may yield
Garbage == IF ReadsOutside THEN GarbageReals ELSE {RZero}

\* random_numbers_p[a+Nz/2] as one write task reads it, by mode number
PhasesRead(garbage) ==
    IF parms.simulation_type = 6
    THEN [a \in Modes6Read(parms) |->
             ReadRandom(random_numbers, a + (parms.ncell[3] \div 2), garbage)]
    ELSE << >>

\* one task of the second amrex::ParallelFor
IP_WriteCell(t, cell, garbage) ==
    /\ Running /\ ip_pc = "tiles" /\ t_pc[t] = "write"
    /\ \A e \in write_log[t] : e.cell # cell
    /\ LET ws  == CellSlots(t, cell)
           in  == {w \in ws : InArray(t, w.pidx)}
           P(w) == NewParticle(t, Position(parms, cell, w.i_loc), w.i_direction, w.pidx, garbage)
       IN  IF ws # {} /\ parms.simulation_type \notin ValidSimulationTypes
           THEN /\ fatal' = "Invalid simulation type"
                /\ UNCHANGED <<particle_tile, write_log, stray>>
           ELSE \/ /\ particle_tile' = [particle_tile EXCEPT ![t] =
                          [k \in 1..Len(@) |->
                              IF \E w \in in : w.pidx = k - 1
                              THEN P(CHOOSE w \in in : w.pidx = k - 1)
                              ELSE @[k]]]
                   /\ stray' = [stray EXCEPT ![t] = @ \cup {w.pidx : w \in ws \ in}]
                   /\ write_log' = [write_log EXCEPT ![t] = @ \cup
                          {[cell |-> cell, cellid |-> WriteCellId(tile_box[t], cell),
                            accepted |-> WriteAccepted(parms, cell),
                            pidxs |-> {w.pidx : w \in ws},
                            writes |-> Cardinality(ws),
                            phases |-> PhasesRead(garbage)]}]
                   /\ UNCHANGED fatal
                \/ /\ ws \ in # {}
                   /\ fatal' = "write outside the particle array"
                   /\ UNCHANGED <<particle_tile, write_log, stray>>
    /\ UNCHANGED <<ip_pc, NUM_FLAVORS, parms, tile_box, rng, geom, scale_fac, direction_vectors, random_numbers,
                   st5, the_next_id, critical, t_pc, counts, offsets, num_to_add, new_pid,
                   old_size, count_log>>

WritePassOver(t) == {e.cell : e \in write_log[t]} = Cells(tile_box[t])

\* the end of the loop body for one tile
IP_TileDone(t) ==
    /\ Running /\ ip_pc = "tiles" /\ t_pc[t] = "write"
    /\ WritePassOver(t)
    /\ t_pc' = [t_pc EXCEPT ![t] = "done"]
    /\ UNCHANGED <<ip_pc, NUM_FLAVORS, parms, tile_box, rng, geom, scale_fac, direction_vectors, random_numbers,
                   st5, the_next_id, critical, counts, offsets, num_to_add, new_pid, old_size,
                   particle_tile, count_log, write_log, stray, fatal>>

\* the end of the parallel region; InitParticles returns
IP_Return ==
    /\ Running /\ ip_pc = "tiles"
    /\ \A t \in Tiles : t_pc[t] \in {"done", "skipped"}
    /\ ip_pc' = "done"
    /\ UNCHANGED <<NUM_FLAVORS, parms, tile_box, rng, geom, scale_fac, direction_vectors, random_numbers,
                   st5, the_next_id, critical, t_pc, counts, offsets, num_to_add, new_pid,
                   old_size, particle_tile, count_log, write_log, stray, fatal>>

(***************************************************************************)
(* InitParticles: the inputs                                               *)
(***************************************************************************)
\* the box arrays: one tile that is the whole 2x2x2 domain; two tiles that
\* halve a 2x2x1 domain; a tile whose first cell lies below a one-cell domain;
\* a tile whose last cell lies above it, beside a tile wholly outside; a
\* column of nz cells
Cube == [ncell |-> <<2, 2, 2>>, boxes |-> << Box(<<0, 0, 0>>, <<1, 1, 1>>) >>]
Pair == [ncell |-> <<2, 2, 1>>,
         boxes |-> << Box(<<0, 0, 0>>, <<0, 1, 0>>), Box(<<1, 0, 0>>, <<1, 1, 0>>) >>]
GhostLo == [ncell |-> <<1, 1, 1>>, boxes |-> << Box(<<-1, 0, 0>>, <<0, 0, 0>>) >>]
GhostHi == [ncell |-> <<1, 1, 1>>,
            boxes |-> << Box(<<0, 0, 0>>, <<1, 0, 0>>), Box(<<2, 0, 0>>, <<2, 0, 0>>) >>]
Column(nz) == [ncell |-> <<1, 1, nz>>, boxes |-> << Box(<<0, 0, 0>>, <<0, 0, nz - 1>>) >>]
\* a process that owns no box, and one whose only tile lies outside the domain
NoTile == [ncell |-> <<1, 1, 1>>, boxes |-> << >>]
Outside == [ncell |-> <<1, 1, 1>>, boxes |-> << Box(<<1, 0, 0>>, <<1, 0, 0>>) >>]

NppcSamples == {<<1, 1, 1>>, <<1, 2, 2>>}
MaxSeed == 1

Micro == [m |-> 70368744, e |-> -46]      \* 1e-6
Ten9 == [m |-> 125000000, e |-> 3]       \* 1e9

\* the densities and the flux vectors of recipe 5
St5Generic == [nnue |-> Ten9, nnua |-> RMul(RHalf, Ten9), nnux |-> RMul(RQ(1, 4), Ten9),
               fe |-> <<RZero, RZero, RQ(3, 10)>>,
               fa |-> <<RQ(1, 10), RZero, RQ(-2, 10)>>,
               fx |-> <<RZero, RZero, RZero>>]
St5NoAnti == [St5Generic EXCEPT !.nnua = RZero, !.nnux = RZero]
St5Faint == [St5Generic EXCEPT !.fe = <<RZero, RQ(5, 10000), RZero>>]
St5Cases == {St5Generic, St5NoAnti, St5Faint}

Parms(sc) ==
    [ncell |-> sc.lay.ncell, nppc |-> sc.nppc,
     L |-> [d \in 1..3 |-> R(sc.lay.ncell[d])], Lz |-> R(sc.lay.ncell[3]),
     nphi_equator |-> sc.nphi, simulation_type |-> sc.sim,
     mass1 |-> RZero, mass2 |-> [m |-> 107043577, e |-> -149],    \* 1.5e-37 g
     theta12 |-> RQ(59, 100),
     st3_amplitude |-> Micro, st3_wavelength_fraction_of_domain |-> 1,
     st4_amplitude |-> Micro, st4_ndens |-> Ten9, st4_ndensbar |-> Ten9,
     st4_theta |-> RZero, st4_phi |-> RZero, st4_thetabar |-> M_PI, st4_phibar |-> RZero,
     st4_fluxfac |-> RQ(1, 3), st4_fluxfacbar |-> RQ(1, 3),
     st5_avgE_MeV |-> R(50), st5_amplitude |-> Micro,
     st5_nnue |-> sc.c5.nnue, st5_nnua |-> sc.c5.nnua, st5_nnux |-> sc.c5.nnux,
     st5_fxnue |-> sc.c5.fe[1], st5_fynue |-> sc.c5.fe[2], st5_fznue |-> sc.c5.fe[3],
     st5_fxnua |-> sc.c5.fa[1], st5_fynua |-> sc.c5.fa[2], st5_fznua |-> sc.c5.fa[3],
     st5_fxnux |-> sc.c5.fx[1], st5_fynux |-> sc.c5.fx[2], st5_fznux |-> sc.c5.fx[3],
     st6_nnue |-> Ten9, st6_nnua |-> Ten9, st6_sigma |-> ROne, st6_sigmabar |-> ROne,
     st6_mu0 |-> ROne, st6_mu0bar |-> ROne, st6_amax |-> ROne, st6_amplitude |-> Micro,
     st7_nnue |-> Ten9, st7_nnua |-> Ten9, st7_sigma |-> ROne, st7_sigmabar |-> ROne,
     st7_mu0 |-> ROne, st7_mu0bar |-> ROne, st7_amplitude |-> Micro, st7_sigma_pert |-> ROne]

Scenario(lay, nppc, n, old, sim, F, seed, c5) ==
    [lay |-> lay, nppc |-> nppc, nphi |-> n, old |-> old, sim |-> sim, F |-> F,
     seed |-> seed, c5 |-> c5]

\* the box arrays and lattices, under the vacuum recipe
GeometryScenarios ==
    { Scenario(lay, nppc, n, old, 0, 2, 0, St5Generic) :
          lay \in {GhostLo, GhostHi, Column(3)}, nppc \in NppcSamples,
          n \in 1..MaxTileNphi, old \in 0..MaxOldSize }
    \cup { Scenario(Pair, <<1, 1, 1>>, n, old, 0, 2, 0, St5Generic) :
              n \in 1..MaxTileNphi, old \in 0..MaxOldSize }
    \cup { Scenario(Cube, <<1, 1, 1>>, MaxTileNphi, 0, 0, 2, 0, St5Generic) }

\* the recipes run with the poles and an equator ring of directions
RecipeNphi == MaxTileNphi + 2

\* the recipes, on a column; the assertions of the recipes hold
RecipeScenarios ==
    { sc \in { Scenario(Column(nz), <<1, 1, 1>>, RecipeNphi, 0, sim, F, seed, c5) :
                   nz \in 2..3, sim \in ValidSimulationTypes \cup {8}, F \in 2..3,
                   seed \in 0..MaxSeed, c5 \in St5Cases } :
          /\ sc.sim \in {6, 7} => sc.F = 2
          /\ sc.sim # 5 => sc.c5 = St5Generic
          /\ sc.sim \notin {4, 5, 6} => sc.seed = 0
          /\ sc.sim # 6 => sc.lay = Column(2) }

\* a simulation_type no branch of the write pass handles, on builds that
\* create no particle
UnhandledScenarios ==
    { Scenario(lay, <<1, 1, 1>>, 1, 0, 8, 2, 0, St5Generic) : lay \in {NoTile, Outside} }

\* a particle an earlier call has left in tile t
Preexisting(pr, t) ==
    [id |-> t, cpu |-> procID, pos |-> <<RZero, RZero, RZero>>,
     x |-> RZero, y |-> RZero, z |-> RZero, time |-> RZero]
        @@ Recipe0(pr, 2, <<RZero, RZero, ROne>>)

IPIdleWith(F, seed) ==
    /\ ip_pc = "idle" /\ NUM_FLAVORS = F /\ parms = <<>> /\ tile_box = <<>> /\ rng = seed
    /\ geom = <<>> /\ scale_fac = RZero
    /\ direction_vectors = <<>> /\ random_numbers = <<>> /\ st5 = St5Unset
    /\ the_next_id = 1 /\ critical = 0 /\ t_pc = <<>> /\ counts = <<>> /\ offsets = <<>>
    /\ num_to_add = <<>> /\ new_pid = <<>> /\ old_size = <<>> /\ particle_tile = <<>>
    /\ count_log = <<>> /\ write_log = <<>> /\ stray = <<>> /\ fatal = ""

IPIdle == IPIdleWith(2, 0)

IPInitFrom(scenarios) ==
    \E sc \in scenarios :
        LET T == DOMAIN sc.lay.boxes
        IN  /\ ip_pc = "setup"
            /\ NUM_FLAVORS = sc.F
            /\ parms = Parms(sc)
            /\ tile_box = sc.lay.boxes
            /\ rng = sc.seed
            /\ geom = <<>>
            /\ scale_fac = RZero
            /\ direction_vectors = <<>>
            /\ random_numbers = <<>>
            /\ st5 = St5Unset
            /\ the_next_id = 1 + sc.old * Len(sc.lay.boxes)
            /\ critical = 0
            /\ t_pc = [t \in T |-> "count"]
            /\ counts = [t \in T |-> [c \in 0..(numPts(sc.lay.boxes[t]) - 1) |-> 0]]
            /\ offsets = [t \in T |-> [c \in 0..(numPts(sc.lay.boxes[t]) - 1) |-> 0]]
            /\ num_to_add = [t \in T |-> 0]
            /\ new_pid = [t \in T |-> 0]
            /\ old_size = [t \in T |-> 0]
            /\ particle_tile = [t \in T |-> [k \in 1..sc.old |-> Preexisting(Parms(sc), t)]]
            /\ count_log = [t \in T |-> {}]
            /\ write_log = [t \in T |-> {}]
            /\ stray = [t \in T |-> {}]
            /\ fatal = ""

IPInit == IPInitFrom(GeometryScenarios \cup RecipeScenarios \cup UnhandledScenarios)


(***************************************************************************)
(* The Lyapunov operations on two particle containers                      *)
(***************************************************************************)
\* the density-matrix components of a particle, neutrinos then antineutrinos
Diagonal == <<"f00_Re", "f11_Re", "f22_Re">>
DiagonalBar == <<"f00_Rebar", "f11_Rebar", "f22_Rebar">>
OffDiagonal == {"f01_Re", "f01_Im", "f02_Re", "f02_Im", "f12_Re", "f12_Im"}
OffDiagonalBar == {"f01_Rebar", "f01_Imbar", "f02_Rebar", "f02_Imbar", "f12_Rebar", "f12_Imbar"}
Components ==
    {Diagonal[k] : k \in 1..3} \cup {DiagonalBar[k] : k \in 1..3}
        \cup OffDiagonal \cup OffDiagonalBar

\* the components PerturbParticlesLyapunov assigns in a build of F flavors
Flavored(F) ==
    IF F = 3 THEN Components
    ELSE {"f00_Re", "f01_Re", "f01_Im", "f11_Re", "f00_Rebar", "f01_Rebar", "f01_Imbar", "f11_Rebar"}

\* the position of the symmetric_uniform call whose value perturbs a component
DrawOf ==
    [f00_Re |-> 1, f01_Re |-> 2, f01_Im |-> 3, f11_Re |-> 4,
     f00_Rebar |-> 5, f01_Rebar |-> 6, f01_Imbar |-> 7, f11_Rebar |-> 8,
     f22_Re |-> 9, f22_Rebar |-> 10, f02_Re |-> 11, f02_Im |-> 12, f12_Re |-> 13,
     f12_Im |-> 14, f02_Rebar |-> 15, f02_Imbar |-> 16, f12_Rebar |-> 17, f12_Imbar |-> 18]

\* the two diagonal entries whose values enter the perturbation of an
\* off-diagonal component
CoupledOf ==
    [f01_Re |-> <<"f00_Re", "f11_Re">>, f01_Im |-> <<"f00_Re", "f11_Re">>,
     f02_Re |-> <<"f00_Re", "f22_Re">>, f02_Im |-> <<"f00_Re", "f22_Re">>,
     f12_Re |-> <<"f11_Re", "f22_Re">>, f12_Im |-> <<"f11_Re", "f22_Re">>,
     f01_Rebar |-> <<"f00_Rebar", "f11_Rebar">>, f01_Imbar |-> <<"f00_Rebar", "f11_Rebar">>,
     f02_Rebar |-> <<"f00_Rebar", "f22_Rebar">>, f02_Imbar |-> <<"f00_Rebar", "f22_Rebar">>,
     f12_Rebar |-> <<"f11_Rebar", "f22_Rebar">>, f12_Imbar |-> <<"f11_Rebar", "f22_Rebar">>]

IsBar(c) == c \in {DiagonalBar[k] : k \in 1..3} \cup OffDiagonalBar
IsDiagonal(c) == c \in {Diagonal[k] : k \in 1..3} \cup {DiagonalBar[k] : k \in 1..3}
DiagonalOf(c) == IF IsBar(c) THEN DiagonalBar ELSE Diagonal

\* the number of symmetric_uniform calls for one particle
DrawsPerParticle(F) == IF F = 3 THEN 18 ELSE 8

\* the value of the n-th symmetric_uniform call for the particle at stream position at
Drawn(at, n) == symmetric_uniform(at + n)

\* double f00_Re_Perturb = parms->Perturbation_Amplitud_Lyapunov*rand;
DiagonalPerturb(A, at, c) == RMul(A, Drawn(at, DrawOf[c]))

\* double f01_Re_Perturb = parms->Perturbation_Amplitud_Lyapunov*rand*(p.rdata(PIdx::f00_Re)+p.rdata(PIdx::f11_Re));
OffDiagonalPerturb(A, at, c, f) ==
    RMul(RMul(A, Drawn(at, DrawOf[c])), RAdd(f[CoupledOf[c][1]], f[CoupledOf[c][2]]))

\* the perturbed entries without the division
PerturbDenominator_One(A, at, d, F) == ROne

\* 1.0+f00_Re_Perturb+f11_Re_Perturb and, with three flavors, +f22_Re_Perturb
PerturbDenominator(A, at, d, F) ==
    IF F = 3
    THEN RAdd(RAdd(RAdd(ROne, DiagonalPerturb(A, at, d[1])), DiagonalPerturb(A, at, d[2])),
              DiagonalPerturb(A, at, d[3]))
    ELSE RAdd(RAdd(ROne, DiagonalPerturb(A, at, d[1])), DiagonalPerturb(A, at, d[2]))

\* the value PerturbParticlesLyapunov assigns to component c of a particle
\* whose components are f
PerturbedComponent(A, at, c, f, F) ==
    IF c \notin Flavored(F) THEN f[c]
    ELSE IF IsDiagonal(c)
         THEN RDiv(RAdd(f[c], DiagonalPerturb(A, at, c)),
                   PerturbDenominator(A, at, DiagonalOf(c), F))
    ELSE RAdd(f[c], OffDiagonalPerturb(A, at, c, f))

PerturbedParticle(A, at, p, F) ==
    [p EXCEPT !.f = [c \in Components |-> PerturbedComponent(A, at, c, p.f, F)]]

\* the position in the random stream of the first draw for particle i of tile t
DrawBase(t, i, F) == (7 * t + i) * DrawsPerParticle(F)

\* PerturbParticlesLyapunov: every particle of every tile
PerturbedTiles(A, tiles, F) ==
    [t \in DOMAIN tiles |->
        [i \in DOMAIN tiles[t] |-> PerturbedParticle(A, DrawBase(t, i, F), tiles[t][i], F)]]

\* p1.rdata(PIdx::x)==p2.rdata(PIdx::x) && ... && p1.rdata(PIdx::pupz)==p2.rdata(PIdx::pupz)
\* over the fields x, y, z, time, pupx, pupy, pupz; a NaN equals nothing
REq(x, y) == ~IsNaN(x) /\ ~IsNaN(y) /\ x = y
KeyFields == 7
SameKey(p1, p2) == \A k \in 1..KeyFields : REq(p1.key[k], p2.key[k])

\* the least j with pstruct2[j] matching p1, or 0 when the loop ends without a match
FirstMatch(p1, pstruct2) ==
    IF \E j \in DOMAIN pstruct2 : SameKey(p1, pstruct2[j])
    THEN CHOOSE j \in DOMAIN pstruct2 :
             /\ SameKey(p1, pstruct2[j])
             /\ \A i \in 1..(j - 1) : ~SameKey(p1, pstruct2[i])
    ELSE 0

\* the tile pti2 stands on when the search for the tile of p1 ends: the first
\* tile of the container with a match for p1, or 0 when pti2 has run off the end
FoundTile(p1, tiles) ==
    IF \E t \in DOMAIN tiles : FirstMatch(p1, tiles[t]) # 0
    THEN CHOOSE t \in DOMAIN tiles :
             /\ FirstMatch(p1, tiles[t]) # 0
             /\ \A u \in 1..(t - 1) : FirstMatch(p1, tiles[u]) = 0
    ELSE 0

\* pstruct2 and np2 as read from pti2: the array of the tile found, or whatever
\* an iterator that is no longer valid yields
ArrayAt(tiles, t2, invalid) == IF t2 = 0 THEN invalid ELSE tiles[t2]

\* the order in which the components are accumulated and rescaled
ComponentOrder ==
    <<"f00_Re", "f01_Re", "f01_Im", "f02_Re", "f02_Im", "f11_Re", "f12_Re", "f12_Im", "f22_Re",
      "f00_Rebar", "f01_Rebar", "f01_Imbar", "f02_Rebar", "f02_Imbar", "f11_Rebar",
      "f12_Rebar", "f12_Imbar", "f22_Rebar">>

\* sum_particles += pow((p1.rdata(PIdx::f00_Re)-p2.rdata(PIdx::f00_Re)),2); and the
\* seventeen lines after it, from component k on
RECURSIVE AddSquares(_, _, _, _)
AddSquares(sum, f1, f2, k) ==
    IF k > Len(ComponentOrder) \/ IsNaN(sum) THEN sum
    ELSE AddSquares(RAdd(sum, Squared(RSub(f1[ComponentOrder[k]], f2[ComponentOrder[k]]))),
                    f1, f2, k + 1)

NotFound(t, i) == [msg |-> "error: particle not found", tile |-> t, index |-> i]

\* the body of for (int i = 0; i < np1; i++) for particle i of tile t of *this,
\* acc the sum, the output and the pairings so far, j the index of its match
DistanceMatched(acc, t, i, t2, j, p1, p2) ==
    [sum |-> AddSquares(acc.sum, p1.f, p2.f, 1), printed |-> acc.printed,
     matched |-> Append(acc.matched, [tile |-> t, index |-> i, tile2 |-> t2, index2 |-> j])]

DistanceUnmatched(acc, t, i) ==
    [sum |-> acc.sum, printed |-> Append(acc.printed, NotFound(t, i)), matched |-> acc.matched]

DistanceParticle(acc, t, i, t2, p1, pstruct2, j) ==
    IF j = 0 THEN DistanceUnmatched(acc, t, i)
    ELSE DistanceMatched(acc, t, i, t2, j, p1, pstruct2[j])

\* the passes of for (int i = 0; i < np1; i++) from index i on; each pass is
\* computed before the next one begins
RECURSIVE DistanceTile(_, _, _, _, _, _)
DistanceTile(acc, tiles, t, i, t2, pstruct2) ==
    IF i > Len(tiles[t]) THEN acc
    ELSE CHOOSE out \in
             { DistanceTile(a, tiles, t, i + 1, t2, pstruct2) :
                 a \in { DistanceParticle(acc, t, i, t2, tiles[t][i], pstruct2,
                                          FirstMatch(tiles[t][i], pstruct2)) } } : TRUE

\* one pass of for (pti1; pti1.isValid(); ++pti1): the tile of the reference
\* container is the one found for the first particle of tile t
DistanceInTile(acc, tiles, ref, t, t2, invalid) ==
    DistanceTile(acc, tiles, t, 1, t2, ArrayAt(ref, t2, invalid[t]))

RECURSIVE DistanceTiles(_, _, _, _, _)
DistanceTiles(acc, tiles, ref, t, invalid) ==
    IF t > Len(tiles) THEN acc
    ELSE CHOOSE out \in
             { DistanceTiles(a, tiles, ref, t + 1, invalid) :
                 a \in { DistanceInTile(acc, tiles, ref, t,
                                        FoundTile(tiles[t][1], ref), invalid) } } : TRUE

\* double sum_particles=0; and the loop over the tiles of *this
DistanceSum(tiles, ref, invalid) ==
    DistanceTiles([sum |-> RZero, printed |-> <<>>, matched |-> <<>>], tiles, ref, 1, invalid)

\* return pow(sum_particles,0.5);
DistanceReturn(sum) == RSqrt(sum)

\* the rescaling without the division by the distance
Rescaled_Undivided(A, d, x1, x2) == RAdd(x2, RMul(A, RSub(x1, x2)))

\* p1.rdata(c) = p2.rdata(c)+parms->Perturbation_Amplitud_Lyapunov*(p1.rdata(c)-p2.rdata(c))/ss_vector_diff;
Rescaled(A, d, x1, x2) == RAdd(x2, RDiv(RMul(A, RSub(x1, x2)), d))

RescaledParticle(A, d, p1, p2) ==
    [p1 EXCEPT !.f = [c \in Components |-> Rescaled(A, d, p1.f[c], p2.f[c])]]

\* double traza=p1.rdata(PIdx::f00_Re)+p1.rdata(PIdx::f11_Re)+p1.rdata(PIdx::f22_Re);
Trace(f, d) == RAdd(RAdd(f[d[1]], f[d[2]]), f[d[3]])

TraceLo == [m |-> 132875551, e |-> -27]     \* 0.99
TraceHi == [m |-> 67779953, e |-> -26]      \* 1.01

\* the trace test with the upper limit left out
TraceOff_LowerOnly(tr) == RLt(tr, TraceLo)

\* if (traza<0.99 || traza>1.01)
TraceOff(tr) == RLt(tr, TraceLo) \/ RGt(tr, TraceHi)

TraceWarning(name, t, i, tr) == [msg |-> name, tile |-> t, index |-> i, value |-> tr]

\* amrex::Print() << "traza error: " << traza << std::endl; when the trace is off
Warned(name, t, i, tr) == IF TraceOff(tr) THEN <<TraceWarning(name, t, i, tr)>> ELSE <<>>

TraceWarnings(t, i, f) ==
    Warned("traza error: ", t, i, Trace(f, Diagonal))
        \o Warned("trazabar error: ", t, i, Trace(f, DiagonalBar))

\* the matched branch of the body of for (int i = 0; i < np1; i++), p the
\* particle as rescaled
RenormalizeMatched(acc, t, i, t2, j, p) ==
    [tiles |-> [acc.tiles EXCEPT ![t][i] = p],
     printed |-> acc.printed \o TraceWarnings(t, i, p.f),
     matched |-> Append(acc.matched, [tile |-> t, index |-> i, tile2 |-> t2, index2 |-> j])]

RenormalizeUnmatched(acc, t, i) ==
    [tiles |-> acc.tiles, printed |-> Append(acc.printed, NotFound(t, i)),
     matched |-> acc.matched]

RenormalizeParticle(acc, A, d, t, i, t2, pstruct2, j) ==
    IF j = 0 THEN RenormalizeUnmatched(acc, t, i)
    ELSE RenormalizeMatched(acc, t, i, t2, j,
                            RescaledParticle(A, d, acc.tiles[t][i], pstruct2[j]))

RECURSIVE RenormalizeTile(_, _, _, _, _, _, _)
RenormalizeTile(acc, A, d, t, i, t2, pstruct2) ==
    IF i > Len(acc.tiles[t]) THEN acc
    ELSE CHOOSE out \in
             { RenormalizeTile(a, A, d, t, i + 1, t2, pstruct2) :
                 a \in { RenormalizeParticle(acc, A, d, t, i, t2, pstruct2,
                                             FirstMatch(acc.tiles[t][i], pstruct2)) } } : TRUE

RenormalizeInTile(acc, A, d, ref, t, t2, invalid) ==
    RenormalizeTile(acc, A, d, t, 1, t2, ArrayAt(ref, t2, invalid[t]))

RECURSIVE RenormalizeTiles(_, _, _, _, _, _)
RenormalizeTiles(acc, A, d, ref, t, invalid) ==
    IF t > Len(acc.tiles) THEN acc
    ELSE CHOOSE out \in
             { RenormalizeTiles(a, A, d, ref, t + 1, invalid) :
                 a \in { RenormalizeInTile(acc, A, d, ref, t,
                                           FoundTile(acc.tiles[t][1], ref), invalid) } } : TRUE

ZeroDistance ==
    [msg |-> "error: ss_vector_diff=0, the renormalization of the perturbation was not posible"]

\* the rescaling without the test of ss_vector_diff
Renormalized_Unguarded(tiles, A, d, ref, invalid) ==
    RenormalizeTiles([tiles |-> tiles, printed |-> <<>>, matched |-> <<>>],
                     A, d, ref, 1, invalid)

\* if (ss_vector_diff!=0.0){ ... }else{ amrex::Print() << ... }
\* a NaN differs from 0.0
Renormalized(tiles, A, d, ref, invalid) ==
    IF d.m # 0 \/ IsNaN(d)
    THEN RenormalizeTiles([tiles |-> tiles, printed |-> <<>>, matched |-> <<>>],
                          A, d, ref, 1, invalid)
    ELSE [tiles |-> tiles, printed |-> <<ZeroDistance>>, matched |-> <<>>]

\* what pstruct2 and np2 hold for a tile of *this when pti2 is not valid: no
\* particle at all, or memory with the particles of that tile itself
InvalidArrays(tiles, own) == [t \in DOMAIN tiles |-> IF own THEN tiles[t] ELSE <<>>]

MaxCalls == 3

\* the number of symmetric_uniform calls one PerturbParticlesLyapunov makes
TotalDraws(tiles, F) ==
    DrawsPerParticle(F)
        * Cardinality(UNION {{<<t, i>> : i \in DOMAIN tiles[t]} : t \in DOMAIN tiles})

LY_Perturb ==
    /\ ly_pc # "idle"
    /\ ly_calls < MaxCalls
    /\ ly_calls' = ly_calls + 1
    /\ ly_pc' = "Perturb"
    /\ before' = current
    /\ current' = PerturbedTiles(amplitude, current, NUM_FLAVORS)
    /\ rng' = (rng + TotalDraws(current, NUM_FLAVORS)) % RandomLevels
    /\ printed' = <<>>
    /\ matched' = <<>>
    /\ aborted' = FALSE
    /\ UNCHANGED <<given, amplitude, ss_vector_diff, passed, built>>
    /\ UNCHANGED <<latticeVars, sphereVars, minerboVars, ipFixed>>

LY_Distance(own) ==
    /\ ly_pc # "idle"
    /\ ly_calls < MaxCalls
    /\ ly_calls' = ly_calls + 1
    /\ ly_pc' = "Distance"
    /\ before' = current
    /\ \E r \in {DistanceSum(current, given, InvalidArrays(current, own))} :
           /\ ss_vector_diff' = DistanceReturn(r.sum)
           /\ printed' = r.printed
           /\ matched' = r.matched
    /\ aborted' = FALSE
    /\ UNCHANGED <<current, given, amplitude, passed, built>>
    /\ UNCHANGED <<latticeVars, sphereVars, minerboVars, ipVars>>

LY_Renormalize(own) ==
    /\ ly_pc # "idle"
    /\ ly_calls < MaxCalls
    /\ ly_calls' = ly_calls + 1
    /\ ly_pc' = "Renormalize"
    /\ before' = current
    /\ passed' = ss_vector_diff
    /\ \E r \in {Renormalized(current, amplitude, ss_vector_diff, given,
                              InvalidArrays(current, own))} :
           /\ current' = r.tiles
           /\ printed' = r.printed
           /\ matched' = r.matched
    /\ aborted' = FALSE
    /\ UNCHANGED <<given, amplitude, ss_vector_diff, built>>
    /\ UNCHANGED <<latticeVars, sphereVars, minerboVars, ipVars>>

(***************************************************************************)
(* The containers the Lyapunov operations are applied to                   *)
(***************************************************************************)
\* x, y, z, time, pupx, pupy, pupz of the particle at position n along x
KeyAt(n) == <<R(n), RZero, RZero, RZero, ROne, RZero, RZero>>

\* a density matrix with the diagonal <<a, b, c>> for both species and the
\* value o in f01_Re and f01_Rebar
FlavorState(a, b, c, o) ==
    [k \in Components |->
        CASE k \in {"f00_Re", "f00_Rebar"} -> a
          [] k \in {"f11_Re", "f11_Rebar"} -> b
          [] k \in {"f22_Re", "f22_Rebar"} -> c
          [] k \in {"f01_Re", "f01_Rebar"} -> o
          [] OTHER -> RZero]

Quarter == [m |-> 67108864, e |-> -28]
Sixteenth == [m |-> 67108864, e |-> -30]

\* the particle at position n along x with the components f: its id is n, its
\* cpu 0, and N, Nbar and pupt are 1
ParticleAt(n, f) ==
    [key |-> KeyAt(n), f |-> f, id |-> n, cpu |-> 0, N |-> ROne, Nbar |-> ROne, pupt |-> ROne]

Electron(n) == ParticleAt(n, FlavorState(ROne, RZero, RZero, RZero))
Mixed(n) == ParticleAt(n, FlavorState(RHalf, RHalf, RZero, Quarter))
Drifted(n) == ParticleAt(n, FlavorState(ROne, ROne, RZero, RZero))

LyScenarios ==
    { [name |-> "Same", F |-> 3, cur |-> <<<<Electron(1), Mixed(2)>>>>,
       ref |-> <<<<Electron(1), Mixed(2)>>>>],
      [name |-> "TwoFlavors", F |-> 2, cur |-> <<<<Electron(1), Mixed(2)>>>>,
       ref |-> <<<<Electron(1), Mixed(2)>>>>],
      [name |-> "Swapped", F |-> 3, cur |-> <<<<Electron(1)>>, <<Mixed(2)>>>>,
       ref |-> <<<<Mixed(2)>>, <<Electron(1)>>>>],
      [name |-> "Split", F |-> 3, cur |-> <<<<Electron(1), Mixed(2)>>>>,
       ref |-> <<<<Electron(1)>>, <<Mixed(2)>>>>],
      [name |-> "Shifted", F |-> 3, cur |-> <<<<Electron(1), Mixed(2)>>>>,
       ref |-> <<<<Electron(3), Mixed(4)>>>>],
      [name |-> "Partial", F |-> 3, cur |-> <<<<Electron(1), Mixed(2)>>>>,
       ref |-> <<<<Electron(1)>>>>],
      [name |-> "Orphan", F |-> 3, cur |-> <<<<Electron(1)>>, <<Mixed(2)>>>>,
       ref |-> <<<<Electron(1)>>>>],
      [name |-> "Drifted", F |-> 3, cur |-> <<<<Drifted(1), Mixed(2)>>>>,
       ref |-> <<<<Electron(1), Electron(2)>>>>] }

LyIdle ==
    /\ ly_pc = "idle" /\ ly_calls = 0 /\ current = <<>> /\ given = <<>>
    /\ amplitude = RZero /\ ss_vector_diff = RZero /\ printed = <<>> /\ aborted = FALSE
    /\ before = <<>> /\ matched = <<>> /\ passed = RZero /\ built = <<>>

LyInit ==
    /\ LatticeIdle
    /\ SphereIdle
    /\ MinerboIdle
    /\ \E sc \in LyScenarios : \E seed \in 0..MaxSeed :
           /\ IPIdleWith(sc.F, seed)
           /\ ly_pc = "ready"
           /\ ly_calls = 0
           /\ current = sc.cur
           /\ given = sc.ref
           /\ amplitude = Sixteenth
           /\ ss_vector_diff = RZero
           /\ printed = <<>>
           /\ aborted = FALSE
           /\ before = sc.cur
           /\ matched = <<>>
           /\ passed = RZero
           /\ built = [cur |-> sc.cur, ref |-> sc.ref]

LyNext ==
    \/ LY_Perturb
    \/ \E own \in BOOLEAN : LY_Distance(own)
    \/ \E own \in BOOLEAN : LY_Renormalize(own)

SpecLyapunov == LyInit /\ [][LyNext]_vars

MinerboInit ==
    /\ LatticeIdle
    /\ IPIdle
    /\ SphereIdle
    /\ LyIdle
    /\ mz_pc = "start"
    /\ fluxfac \in FluxFacs
    /\ Z = ROne
    /\ residual = RZero
    /\ count = 0
    /\ mu = RZero
    /\ angular_factor = RZero

MinerboNext ==
    \/ MZ_Branch
    \/ MZ_Iterate
    \/ MZ_Exit
    \/ \E k \in MuSamples : MZ_Closure(RQ(k, 2))

SpecMinerbo == MinerboInit /\ [][MinerboNext]_vars

SphereNext ==
    \/ SphereRing /\ UNCHANGED <<latticeVars, minerboVars, ipVars, lyVars>>
    \/ SpherePush /\ UNCHANGED <<latticeVars, minerboVars, ipVars, lyVars>>
    \/ SphereAdvance /\ UNCHANGED <<latticeVars, minerboVars, ipVars, lyVars>>

SphereStart == LatticeIdle /\ SphereInit /\ MinerboIdle /\ IPIdle /\ LyIdle

SpecSphere == SphereStart /\ [][SphereNext]_vars

Init == LatticeIdle /\ SphereIdle /\ MinerboIdle /\ IPInit /\ LyIdle

Next ==
    \/ IP_Setup /\ UNCHANGED <<latticeVars, sphereVars, minerboVars, lyVars>>
    \/ \E t \in Tiles : \E cell \in Cells(tile_box[t]) :
           IP_CountCell(t, cell) /\ UNCHANGED <<latticeVars, sphereVars, minerboVars, lyVars>>
    \/ \E t \in Tiles : IP_Scan(t) /\ UNCHANGED <<latticeVars, sphereVars, minerboVars, lyVars>>
    \/ \E t \in Tiles : IP_Enter(t) /\ UNCHANGED <<latticeVars, sphereVars, minerboVars, lyVars>>
    \/ \E t \in Tiles : IP_Resize(t) /\ UNCHANGED <<latticeVars, sphereVars, minerboVars, lyVars>>
    \/ \E t \in Tiles : IP_GetID(t) /\ UNCHANGED <<latticeVars, sphereVars, minerboVars, lyVars>>
    \/ \E t \in Tiles : IP_SetID(t) /\ UNCHANGED <<latticeVars, sphereVars, minerboVars, lyVars>>
    \/ \E t \in Tiles : IP_Leave(t) /\ UNCHANGED <<latticeVars, sphereVars, minerboVars, lyVars>>
    \/ \E t \in Tiles : \E cell \in Cells(tile_box[t]) : \E g \in Garbage :
           IP_WriteCell(t, cell, g) /\ UNCHANGED <<latticeVars, sphereVars, minerboVars, lyVars>>
    \/ \E t \in Tiles : IP_TileDone(t) /\ UNCHANGED <<latticeVars, sphereVars, minerboVars, lyVars>>
    \/ IP_Return /\ UNCHANGED <<latticeVars, sphereVars, minerboVars, lyVars>>

Spec == Init /\ [][Next]_vars

(***************************************************************************)
(* Properties of minerbo_Z and minerbo_closure                             *)
(***************************************************************************)
\* componentwise agreement of two direction vectors to single-precision accuracy
AntipodeTol == RQ(1, 1000000)
Close(a, b) == \A k \in 1..3 : RLe(RAbs(RSub(a[k], b[k])), AntipodeTol)

\* C6: when uniform_sphere_xyz has returned, every direction that is not on
\* a single-point ring has its negation in the set, the equator ring included,
\* for even and for odd nphi_at_equator.
C6_AntipodalClosure ==
    sp_pc = "done" =>
        \A i \in 1..Len(xyz) :
            xyz_nphi[i] # 1 => \E j \in 1..Len(xyz) : Close(xyz[j], Negated(xyz[i]))

\* the sum of the counts of the rings from ring k on
RECURSIVE RingsFrom(_)
RingsFrom(k) == IF k > Len(rings) THEN 0 ELSE rings[k] + RingsFrom(k + 1)

\* C19: when uniform_sphere_xyz has returned, a ring of one longitude is the
\* last ring, and the number of directions returned is nphi_at_equator for the
\* equator ring plus twice the count of every later ring.
C19_RingCounts ==
    sp_pc = "done" =>
        /\ \A k \in DOMAIN rings : rings[k] = 1 => k = Len(rings)
        /\ rings # <<>> => rings[1] = nphi_at_equator
        /\ Len(xyz) = (IF rings = <<>> THEN 0 ELSE nphi_at_equator) + 2 * RingsFrom(2)

NewtonBranch == ~RLt(fluxfac, minfluxfac)
MZ_Left == mz_pc \in {"return", "closed", "error"}
MZ_Returned == mz_pc \in {"return", "closed"}

C8_ReturnedZConverged ==
    (MZ_Returned /\ NewtonBranch)
        => RLt(RAbs(minerbo_residual(fluxfac, Z)), maxresidual)

\* C9: below minfluxfac minerbo_Z returns exactly 3*fluxfac with no Newton
\* iteration and no error, and minerbo_closure applies no Z/sinh(Z) factor to
\* such a Z (so the closure of Z = 0 is 1 for every mu).
C9_SmallFluxFactor ==
    (MZ_Left /\ RLt(fluxfac, minfluxfac))
        => /\ mz_pc # "error"
           /\ Z = RMul(R(3), fluxfac)
           /\ count = 0
           /\ mz_pc = "closed" => /\ angular_factor = RExp(RMul(Z, mu))
                                  /\ Z = RZero => angular_factor = ROne

C9_Witness ==
    /\ mz_pc = "closed"
    /\ RLt(fluxfac, minfluxfac)
    /\ fluxfac # RZero
    /\ mu # RZero
    /\ angular_factor # ROne

(***************************************************************************)
(* Properties of the Lyapunov operations                                   *)
(***************************************************************************)
\* agreement of two numbers up to the rounding of the arithmetic, 2^-14
RoundOff == [m |-> 67108864, e |-> -40]
Near(a, b) == RLe(RAbs(RSub(a, b)), RoundOff)

Particles(tiles) == UNION {{<<t, i>> : i \in DOMAIN tiles[t]} : t \in DOMAIN tiles}

\* f_ii*(1 + amplitude*rand_i)
ScaledEntry(A, at, c, f) == RMul(f[c], RAdd(ROne, RMul(A, Drawn(at, DrawOf[c]))))

\* the sum of the scaled entries of the diagonal d in a build of F flavors
ScaledSum(A, at, d, f, F) ==
    IF F = 3
    THEN RAdd(RAdd(ScaledEntry(A, at, d[1], f), ScaledEntry(A, at, d[2], f)),
              ScaledEntry(A, at, d[3], f))
    ELSE RAdd(ScaledEntry(A, at, d[1], f), ScaledEntry(A, at, d[2], f))

\* C12: a PerturbParticlesLyapunov step replaces each diagonal entry f_ii of
\* every particle by f_ii*(1 + amplitude*rand_i) divided by the sum of the
\* entries so scaled, for neutrinos and for antineutrinos, and leaves every
\* diagonal summing to 1.
C12_DiagonalScaledAndNormalized ==
    [][ly_pc' = "Perturb" =>
          \A q \in Particles(current) :
              /\ \A c \in {k \in Flavored(NUM_FLAVORS) : IsDiagonal(k)} :
                     Near(current'[q[1]][q[2]].f[c],
                          RDiv(ScaledEntry(amplitude, DrawBase(q[1], q[2], NUM_FLAVORS), c,
                                           current[q[1]][q[2]].f),
                               ScaledSum(amplitude, DrawBase(q[1], q[2], NUM_FLAVORS),
                                         DiagonalOf(c), current[q[1]][q[2]].f, NUM_FLAVORS)))
              /\ Near(Trace(current'[q[1]][q[2]].f, Diagonal), ROne)
              /\ Near(Trace(current'[q[1]][q[2]].f, DiagonalBar), ROne)]_vars

\* C13: a PerturbParticlesLyapunov step adds amplitude*rand*(f_ii - f_jj) to
\* each off-diagonal component, f_ii and f_jj the diagonal entries it couples
\* as they were before the step; equal entries leave the component unchanged.
C13_OffDiagonalByDifference ==
    [][ly_pc' = "Perturb" =>
          \A q \in Particles(current) :
              \A c \in {k \in Flavored(NUM_FLAVORS) : ~IsDiagonal(k)} :
                  Near(current'[q[1]][q[2]].f[c],
                       RAdd(current[q[1]][q[2]].f[c],
                            RMul(RMul(amplitude,
                                      Drawn(DrawBase(q[1], q[2], NUM_FLAVORS), DrawOf[c])),
                                 RSub(current[q[1]][q[2]].f[CoupledOf[c][1]],
                                      current[q[1]][q[2]].f[CoupledOf[c][2]]))))]_vars

\* whether the particle p has a particle with equal key anywhere in the container
HasMatch(p, tiles) == \E r \in Particles(tiles) : SameKey(p, tiles[r[1]][r[2]])

\* C14: when ComputeStateSpaceDifferenceLyapunov has returned, every particle of
\* *this without a particle of equal key in the reference container has been
\* reported as not found, and every pairing that entered the distance is with
\* a particle of the reference container of equal key.
C14_UnmatchedReported ==
    ly_pc = "Distance" =>
        /\ \A q \in Particles(current) :
               ~HasMatch(current[q[1]][q[2]], given)
                   => \E k \in DOMAIN printed : printed[k] = NotFound(q[1], q[2])
        /\ \A k \in DOMAIN matched :
               /\ matched[k].tile2 \in DOMAIN given
               /\ SameKey(current[matched[k].tile][matched[k].index],
                          given[matched[k].tile2][matched[k].index2])

\* C15: RenormalizePerturbationLyapunov called with a distance of exactly 0
\* aborts the run, and so does a call that meets a particle without a match.
C15_ZeroDistanceIsFatal ==
    ly_pc = "Renormalize" =>
        /\ (passed = RZero => aborted)
        /\ ((\E k \in DOMAIN printed : printed[k].msg = "error: particle not found")
                => aborted)


\* the two containers hold the same keys, each once
OneToOne(tiles, ref) ==
    /\ \A q \in Particles(tiles) :
           Cardinality({r \in Particles(ref) :
                            SameKey(tiles[q[1]][q[2]], ref[r[1]][r[2]])}) = 1
    /\ \A r \in Particles(ref) :
           Cardinality({q \in Particles(tiles) :
                            SameKey(tiles[q[1]][q[2]], ref[r[1]][r[2]])}) = 1

NoArrays(tiles) == InvalidArrays(tiles, FALSE)

\* Distance(tiles, ref) as ComputeStateSpaceDifferenceLyapunov returns it
Distance(tiles, ref) == DistanceReturn(DistanceSum(tiles, ref, NoArrays(tiles)).sum)

\* Renormalize has just been applied to containers that match one to one,
\* with the non-zero distance they had
RoundTripDone ==
    /\ ly_pc = "Renormalize"
    /\ OneToOne(before, given)
    /\ passed # RZero
    /\ passed = Distance(before, given)

SameTiles(a, b) ==
    \A q \in Particles(a) : \A c \in Components : Near(a[q[1]][q[2]].f[c], b[q[1]][q[2]].f[c])

\* C16: after Renormalize(current, reference, d) with d = Distance(current,
\* reference) non-zero on containers that match one to one, Distance(current,
\* reference) is the target amplitude (to rounding), and Renormalize with
\* that distance leaves current as it is (to rounding).
C16_RoundTrip ==
    RoundTripDone =>
        /\ Near(Distance(current, given), amplitude)
        /\ SameTiles(current,
                     Renormalized(current, amplitude, Distance(current, given), given,
                                  NoArrays(current)).tiles)

C16_Witness ==
    /\ RoundTripDone
    /\ ~SameTiles(current, before)
    /\ ~Near(passed, amplitude)

IsMatched(q) == \E k \in DOMAIN matched : matched[k].tile = q[1] /\ matched[k].index = q[2]

IsWarned(name, q) ==
    \E k \in DOMAIN printed :
        printed[k].msg = name /\ printed[k].tile = q[1] /\ printed[k].index = q[2]

\* the particle a pairing was made with
PairedParticle(pairing) ==
    ArrayAt(given, pairing.tile2, before[pairing.tile])[pairing.index2]

\* the particle the pairing of q was made with
PairedWith(q) ==
    PairedParticle(matched[CHOOSE k \in DOMAIN matched :
                               matched[k].tile = q[1] /\ matched[k].index = q[2]])

\* a diagonal sum below 0.99 or above 1.01
OutsideOnePercent(tr) == RLt(tr, RQ(99, 100)) \/ RGt(tr, RQ(101, 100))

UnitTraces(f) == Trace(f, Diagonal) = ROne /\ Trace(f, DiagonalBar) = ROne

\* C17: after a Renormalize with a non-zero distance, a trace warning has been
\* written for a particle exactly when the particle was matched and its
\* neutrino (respectively antineutrino) diagonal sum is below 0.99 or above
\* 1.01; the run is not aborted and every matched particle is rescaled,
\* whatever was warned before it; a particle whose diagonals summed to 1, as
\* those of its reference particle, gets no warning.
C17_TraceWarning ==
    (ly_pc = "Renormalize" /\ passed # RZero) =>
        /\ ~aborted
        /\ \A q \in Particles(current) :
               /\ IsWarned("traza error: ", q)
                      <=> (IsMatched(q) /\ OutsideOnePercent(Trace(current[q[1]][q[2]].f, Diagonal)))
               /\ IsWarned("trazabar error: ", q)
                      <=> (IsMatched(q) /\ OutsideOnePercent(Trace(current[q[1]][q[2]].f, DiagonalBar)))
               /\ IsMatched(q) =>
                      /\ current[q[1]][q[2]]
                             = RescaledParticle(amplitude, passed, before[q[1]][q[2]], PairedWith(q))
                      /\ (UnitTraces(before[q[1]][q[2]].f) /\ UnitTraces(PairedWith(q).f))
                             => /\ ~IsWarned("traza error: ", q)
                                /\ ~IsWarned("trazabar error: ", q)

C17_Witness ==
    /\ ly_pc = "Renormalize"
    /\ passed # RZero
    /\ Len(current[1]) = 2
    /\ IsWarned("traza error: ", <<1, 1>>)
    /\ ~IsWarned("traza error: ", <<1, 2>>)
    /\ IsMatched(<<1, 2>>)
    /\ current[1][2] # before[1][2]


\* the particle of the container with the key of p
MatchOf(p, tiles) ==
    tiles[(CHOOSE r \in Particles(tiles) : SameKey(p, tiles[r[1]][r[2]]))[1]]
         [(CHOOSE r \in Particles(tiles) : SameKey(p, tiles[r[1]][r[2]]))[2]]

\* the sum of the squared differences of all components over the particles
\* of tiles, from particle i of tile t on, that have a match anywhere in ref
RECURSIVE EveryMatchSum(_, _, _, _, _)
EveryMatchSum(sum, tiles, ref, t, i) ==
    IF t > Len(tiles) THEN sum
    ELSE IF i > Len(tiles[t]) THEN EveryMatchSum(sum, tiles, ref, t + 1, 1)
    ELSE IF ~HasMatch(tiles[t][i], ref) THEN EveryMatchSum(sum, tiles, ref, t, i + 1)
    ELSE CHOOSE out \in
             { EveryMatchSum(a, tiles, ref, t, i + 1) :
                 a \in { AddSquares(sum, tiles[t][i].f, MatchOf(tiles[t][i], ref).f, 1) } } : TRUE

\* C20: ComputeStateSpaceDifferenceLyapunov returns the square root of the sum,
\* over every particle of *this with a particle of equal key in the reference
\* container, whichever tile holds it, of the squared differences of all
\* components; *this is left as it was.
C20_DistanceOverEveryMatch ==
    ly_pc = "Distance" =>
        /\ Near(ss_vector_diff, RSqrt(EveryMatchSum(RZero, current, given, 1, 1)))
        /\ current = before

(***************************************************************************)
(* InitParticles: the properties                                           *)
(***************************************************************************)
Returned == ip_pc = "done"
Unhandled == parms.simulation_type \notin ValidSimulationTypes

\* C11: a call with a simulation_type outside 0..7 never returns: it ends in
\* the fatal error "Invalid simulation type", also when no tile adds a particle
C11_InvalidTypeIsFatal ==
    (ip_pc # "setup" /\ Unhandled) => ~Returned

\* a call with an unhandled simulation_type has returned and every tile was
\* skipped with num_to_add = 0
C11_ReturnedUnhandled ==
    /\ ip_pc # "setup" /\ Unhandled /\ Returned /\ fatal = ""
    /\ Tiles # {} /\ \A t \in Tiles : t_pc[t] = "skipped" /\ num_to_add[t] = 0


(***************************************************************************)
(* InitParticles: the random table of recipe 6                             *)
(***************************************************************************)
\* the table as the I/O process fills it before the broadcast
FilledTable ==
    [i \in 0..(parms.ncell[1] * parms.ncell[2] * parms.ncell[3] - 1) |-> symmetric_uniform(i)]

WriteTasks == UNION { write_log[t] : t \in Tiles }

\* C18: the random table is filled before the loop over the tiles and before
\* any write task runs, it is never written afterwards, and for each mode
\* number a every write task of every tile reads the same random phase
C18_OneTableForEveryRead ==
    /\ ip_pc = "setup" => WriteTasks = {}
    /\ ip_pc # "setup" => random_numbers = FilledTable
    /\ \A e1, e2 \in WriteTasks : e1.phases = e2.phases

C18_PhasesDiffer ==
    /\ parms.simulation_type = 6 /\ ip_pc = "done" /\ random_numbers = FilledTable
    /\ \E e1, e2 \in WriteTasks : \E a \in Modes6Read(parms) : e1.phases[a] # e2.phases[a]

(***************************************************************************)
(* InitParticles: the slots, the counters and the ids of a tile            *)
(***************************************************************************)
\* the iteration of tile t has left the critical section
Reserved(t) == t_pc[t] \in {"write", "done"}

IdRange(t) == new_pid[t]..(new_pid[t] + num_to_add[t] - 1)

\* C1: every slot index of the write pass of a tile lies in 0..num_to_add-1,
\* no slot index is computed twice, in one task or in two, and when the write
\* pass of the tile is over every index of 0..num_to_add-1 has been written
C1_SlotsAreABijection ==
    \A t \in Tiles :
        /\ \A e \in write_log[t] :
               /\ e.pidxs \subseteq 0..(num_to_add[t] - 1)
               /\ Cardinality(e.pidxs) = e.writes
        /\ \A e1, e2 \in write_log[t] : e1 # e2 => e1.pidxs \cap e2.pidxs = {}
        /\ t_pc[t] = "done" => UNION { e.pidxs : e \in write_log[t] } = 0..(num_to_add[t] - 1)

\* a tile whose first cell is excluded has written a slot index beyond num_to_add
C1_SlotBeyondTheTile ==
    \E t \in Tiles : \E e \in write_log[t] :
        /\ \E c \in count_log[t] : c.cellid = 0 /\ c.accepted = {}
        /\ \E pidx \in e.pidxs : pidx >= num_to_add[t]

\* the lattice positions of a cell that lie in the domain [lo, hi)
InDomain(pr, cell) ==
    { i \in 0..(nlocs_per_cell(pr) - 1) :
          \A d \in 1..3 : /\ RLe(geom.lo[d], Position(pr, cell, i)[d])
                          /\ RLt(Position(pr, cell, i)[d], geom.hi[d]) }

\* the grid of 2x2x2 cells in one tile with one position per cell
OnCube == parms.ncell = <<2, 2, 2>> /\ parms.nppc = <<1, 1, 1>> /\ Tiles = {1}

\* C2: once the scan of a tile has run, num_to_add is the sum of the counters
\* of the tile, and the counter of each cell is the number of its lattice
\* positions inside the domain times the number of directions; the grid of
\* 2x2x2 cells with one position per cell and k directions gives 8k
C2_TotalIsTheSumOfTheCounters ==
    \A t \in Tiles : t_pc[t] # "count" =>
        /\ num_to_add[t] = SumTo(counts[t], numPts(tile_box[t]) - 1)
        /\ \A cell \in Cells(tile_box[t]) :
               counts[t][CountCellId(tile_box[t], cell)]
                   = Cardinality(InDomain(parms, cell)) * ndirs_per_loc
        /\ OnCube => num_to_add[t] = 8 * ndirs_per_loc

C2_Witness ==
    /\ OnCube /\ ip_pc = "done" /\ ndirs_per_loc > 1
    /\ num_to_add[1] = 8 * ndirs_per_loc
    /\ Len(particle_tile[1]) = 8 * ndirs_per_loc

\* C3: the id ranges new_pid..new_pid+num_to_add-1 that two tiles have
\* reserved are disjoint, and the id counter is beyond every range reserved
\* and has advanced by at least the sum of the counts reserved
C3_ReservationsAreDisjoint ==
    LET done == { t \in Tiles : Reserved(t) }
    IN  /\ \A t1, t2 \in done : t1 # t2 => IdRange(t1) \cap IdRange(t2) = {}
        /\ \A t \in done :
               /\ the_next_id >= new_pid[t] + num_to_add[t]
               /\ \A first \in done : (\A u \in done : new_pid[first] <= new_pid[u]) =>
                      the_next_id - new_pid[first] >= Cardinality(UNION { IdRange(u) : u \in done })

C3_Witness ==
    /\ ip_pc = "done"
    /\ \E t1, t2 \in Tiles :
           /\ t1 # t2 /\ Reserved(t1) /\ Reserved(t2)
           /\ num_to_add[t1] > 1 /\ num_to_add[t2] > 1
           /\ new_pid[t2] < new_pid[t1]

\* C4: no two tasks of the count pass of a tile write the same element of
\* counts, no two tasks of its write pass write the same slot, the scan has
\* run only when every count task has, and a write task has run only when
\* the reservation of the tile is over
C4_TasksWriteDisjointElements ==
    \A t \in Tiles :
        /\ \A c1, c2 \in count_log[t] : c1 # c2 => c1.cellid # c2.cellid
        /\ \A c \in count_log[t] : c.cellid \in 0..(numPts(tile_box[t]) - 1)
        /\ \A e1, e2 \in write_log[t] : e1 # e2 => e1.pidxs \cap e2.pidxs = {}
        /\ t_pc[t] # "count" => CountPassOver(t)
        /\ write_log[t] # {} =>
               /\ Reserved(t) /\ critical # t
               /\ Len(particle_tile[t]) = old_size[t] + num_to_add[t]

C4_Witness ==
    \E t \in Tiles :
        /\ t_pc[t] = "done"
        /\ Cardinality(count_log[t]) > 2 /\ Cardinality(write_log[t]) > 2
        /\ \A e \in write_log[t] : e.writes > 1

\* C5: for every cell of a tile the write pass computes the cellid the count
\* pass computed, accepts the lattice positions the count pass accepted, and
\* writes as many particles as the counter of the cell holds
C5_PassesAgree ==
    \A t \in Tiles : \A c \in count_log[t] : \A e \in write_log[t] :
        c.cell = e.cell =>
            /\ e.cellid = c.cellid
            /\ e.accepted = c.accepted
            /\ e.writes = counts[t][c.cellid]

C5_Witness ==
    \E t \in Tiles :
        /\ t_pc[t] = "done"
        /\ \E e \in write_log[t] : e.accepted = {} /\ e.writes = 0
        /\ \E e \in write_log[t] : Cardinality(e.accepted) > 1 /\ e.writes > 1

(***************************************************************************)
(* InitParticles: the diagonals of the particles written                   *)
(***************************************************************************)
DiagonalSum(p) ==
    IF NUM_FLAVORS = 3 THEN RAdd(RAdd(p.f00_Re, p.f11_Re), p.f22_Re)
    ELSE RAdd(p.f00_Re, p.f11_Re)

DiagonalSumBar(p) ==
    IF NUM_FLAVORS = 3 THEN RAdd(RAdd(p.f00_Rebar, p.f11_Rebar), p.f22_Rebar)
    ELSE RAdd(p.f00_Rebar, p.f11_Rebar)

WrittenParticles ==
    UNION { { particle_tile[t][k] : k \in 1..Len(particle_tile[t]) } : t \in Tiles } \ {Unwritten}

\* C10: after InitParticles has returned from a build with a recipe 0 to 7,
\* the neutrino diagonal and the antineutrino diagonal of every particle
\* written sum to 1 within rounding
C10_DiagonalsSumToOne ==
    (ip_pc = "done" /\ parms.simulation_type \in ValidSimulationTypes) =>
        \A p \in WrittenParticles :
            /\ Near(DiagonalSum(p), ROne)
            /\ Near(DiagonalSumBar(p), ROne)

\* recipe 5 has returned with a particle whose antineutrino diagonal is not a number
C10_DiagonalNotANumber ==
    /\ ip_pc = "done" /\ parms.simulation_type = 5
    /\ \E p \in WrittenParticles : Near(DiagonalSum(p), ROne) /\ IsNaN(DiagonalSumBar(p))

(***************************************************************************)
(* get_position_unit_cell                                                  *)
(***************************************************************************)
LatticeNext == GP_Call /\ UNCHANGED <<sphereVars, minerboVars, ipVars, lyVars>>

LatticeStart == LatticeInit /\ SphereIdle /\ MinerboIdle /\ IPIdle /\ LyIdle

SpecLattice == LatticeStart /\ [][LatticeNext]_vars

\* the sub-cell centre with the indices ix, iy, iz
Centre(n, ix, iy, iz) ==
    << RDiv(RAdd(RHalf, R(ix)), R(n[1])),
       RDiv(RAdd(RHalf, R(iy)), R(n[2])),
       RDiv(RAdd(RHalf, R(iz)), R(n[3])) >>

Centres(n) ==
    { Centre(n, ix, iy, iz) : ix \in 0..(n[1] - 1), iy \in 0..(n[2] - 1), iz \in 0..(n[3] - 1) }

LatticeOver == gp_i_part = gp_nppc[1] * gp_nppc[2] * gp_nppc[3]

\* C21: every call of get_position_unit_cell returns a sub-cell centre
\* ((0.5+ix)/nx, (0.5+iy)/ny, (0.5+iz)/nz) with indices in range, two calls
\* with different i_part return different centres, every coordinate is
\* strictly between 0 and 1, and the calls for i_part = 0..nx*ny*nz-1 return
\* every centre
C21_LatticeIsABijection ==
    /\ \A i \in DOMAIN gp_seen :
           /\ gp_seen[i] \in Centres(gp_nppc)
           /\ \A d \in 1..3 : RGt(gp_seen[i][d], RZero) /\ RLt(gp_seen[i][d], ROne)
           /\ \A j \in DOMAIN gp_seen : i # j => gp_seen[i] # gp_seen[j]
    /\ LatticeOver => { gp_seen[i] : i \in DOMAIN gp_seen } = Centres(gp_nppc)

C21_Witness ==
    /\ LatticeOver
    /\ gp_nppc = <<2, 3, 2>>
    /\ Cardinality({ gp_seen[i] : i \in DOMAIN gp_seen }) = 12
    /\ gp_r = gp_seen[11]

(***************************************************************************)
(* InitParticles: the particles a tile held before the call                *)
(***************************************************************************)
\* C22: when the write pass of a tile is over, the particles the tile held
\* before the call are unchanged at the indices below old_size and every
\* index from old_size to old_size + num_to_add - 1 holds a new particle; a
\* tile with num_to_add = 0 keeps its size and has reserved no id
C22_OldParticlesKept ==
    \A t \in Tiles :
        /\ t_pc[t] = "done" =>
               /\ Len(particle_tile[t]) = old_size[t] + num_to_add[t]
               /\ \A k \in 1..old_size[t] : particle_tile[t][k] = Preexisting(parms, t)
               /\ \A k \in (old_size[t] + 1)..(old_size[t] + num_to_add[t]) :
                      /\ particle_tile[t][k] # Unwritten
                      /\ particle_tile[t][k].id \in IdRange(t)
        /\ t_pc[t] = "skipped" =>
               /\ \A k \in 1..Len(particle_tile[t]) : particle_tile[t][k] = Preexisting(parms, t)
               /\ new_pid[t] = 0

\* a tile that held a particle has it overwritten and its last slot unwritten
C22_OldParticleOverwritten ==
    \E t \in Tiles :
        /\ t_pc[t] = "done" /\ old_size[t] > 0 /\ stray[t] = {}
        /\ particle_tile[t][1] # Preexisting(parms, t)
        /\ particle_tile[t][1].id = new_pid[t]
        /\ particle_tile[t][Len(particle_tile[t])] = Unwritten

(***************************************************************************)
(* InitParticles: the indices recipe 6 reads the random table at           *)
(***************************************************************************)
\* int nrandom = parms->ncell[0] * parms->ncell[1] * parms->ncell[2];
nrandom == parms.ncell[1] * parms.ncell[2] * parms.ncell[3]

\* C23: in recipe 6 on a column of Nz cells, every index a + Nz/2 a write
\* task has read the random table at, for the modes a = -amax..amax without
\* 0, lies in 0..nrandom-1
C23_TableReadsInRange ==
    (parms.simulation_type = 6 /\ parms.ncell[1] = 1 /\ parms.ncell[2] = 1) =>
        \A e \in WriteTasks : \A a \in DOMAIN e.phases :
            /\ a + (parms.ncell[3] \div 2) >= 0
            /\ a + (parms.ncell[3] \div 2) < nrandom

\* a write task of recipe 6 has read the table at the index nrandom
C23_ReadPastTheTable ==
    /\ parms.simulation_type = 6 /\ parms.ncell = <<1, 1, 2>> /\ ip_pc = "done"
    /\ \E e \in WriteTasks : \E a \in DOMAIN e.phases :
           a = amax6(parms) /\ a + (parms.ncell[3] \div 2) = nrandom

\* what Perturb, Distance and Renormalize never assign: the id and cpu, the
\* position, time and momentum, and N and Nbar of a particle
Frame(p) ==
    [key |-> p.key, id |-> p.id, cpu |-> p.cpu, N |-> p.N, Nbar |-> p.Nbar, pupt |-> p.pupt]

SameFrames(a, b) ==
    /\ DOMAIN a = DOMAIN b
    /\ \A t \in DOMAIN a :
           /\ DOMAIN a[t] = DOMAIN b[t]
           /\ \A i \in DOMAIN a[t] : Frame(a[t][i]) = Frame(b[t][i])

UnitTracesIn(tiles) == \A q \in Particles(tiles) : UnitTraces(tiles[q[1]][q[2]].f)

\* the two containers were built alike: their keys match one to one and every
\* diagonal sums to 1
BuiltAlike ==
    /\ ly_pc # "idle"
    /\ OneToOne(built.cur, built.ref)
    /\ UnitTracesIn(built.cur)
    /\ UnitTracesIn(built.ref)

\* C24: from two containers built alike (keys matching one to one, unit
\* diagonal sums), after any sequence of Perturb, Distance and Renormalize with
\* the distance measured last, both containers hold the particles they held,
\* with the ids, positions, times, momenta, N and Nbar they had; the reference
\* container is as it was built; every particle of the current container has
\* exactly one particle of equal key in the reference container, and both its
\* diagonals sum to 1 (to rounding).
C24_EnsemblesStayPaired ==
    BuiltAlike =>
        /\ SameFrames(current, built.cur)
        /\ given = built.ref
        /\ \A q \in Particles(current) :
               /\ Cardinality({r \in Particles(given) :
                                   SameKey(current[q[1]][q[2]], given[r[1]][r[2]])}) = 1
               /\ Near(Trace(current[q[1]][q[2]].f, Diagonal), ROne)
               /\ Near(Trace(current[q[1]][q[2]].f, DiagonalBar), ROne)

\* a Renormalize with a measured non-zero distance has followed a Perturb and
\* a Distance on containers built alike, and the components have changed
C24_Witness ==
    /\ BuiltAlike
    /\ ly_calls = 3
    /\ ly_pc = "Renormalize"
    /\ passed # RZero
    /\ ~IsNaN(passed)
    /\ \A q \in Particles(current) : IsMatched(q)
    /\ ~SameTiles(current, built.cur)

\* the reference tile searched for the particles of tile t of the container
\* as it was when the last call began, or 0 when no tile holds a match for
\* the first particle of the tile
SearchedTile(t) == FoundTile(before[t][1], given)

\* the index, in the reference tile searched, of the match of particle q as
\* it was when the last call began; 0 without a match or a tile
SearchedMatch(q) ==
    IF SearchedTile(q[1]) = 0 THEN 0
    ELSE FirstMatch(before[q[1]][q[2]], given[SearchedTile(q[1])])

====
